---- MODULE Spec2Model ----
(***************************************************************************)
(* Model of the beat-saber-editor playback clock (AudioManager), of the    *)
(* editor store's keyframe operations and of the BPM setting.              *)
(*                                                                         *)
(* Time is counted in whole seconds: performance.now()/1000 is the wall    *)
(* clock `now`, advanced by the environment.  The Web Audio objects the    *)
(* AudioManager drives are modelled by what the code can observe of them:  *)
(* a source node is free, playing, stopped (stop() was called) or ended    *)
(* (it ran to the end of the buffer); a stopped or ended node has an       *)
(* `ended` event queued that the browser delivers later as a task; an      *)
(* animation-frame request is pending until it fires or is cancelled.      *)
(***************************************************************************)
EXTENDS Integers, Sequences, FiniteSets, TLC

\* ------------------------------------------------------------------ bounds

\* Longest track, in seconds
MaxDuration == 2
\* Source nodes that can exist at once (a node is reused once its ended
\* event was delivered and the manager dropped it)
MaxSources == 2
\* play() calls that can wait for AudioContext.resume() at once
MaxPending == 2

\* The wall clock runs from 0 to the length of the longest track
MaxNow == MaxDuration

NoData == 0
NoSource == 0
NoFrame == 0

\* setAudioData: a one-second track or the longest one
Durations == {1, MaxDuration}
SourceIds == 1..MaxSources
\* ids of animation-frame requests
FrameIds == 1..3
\* play(fromTime) by a caller: from the start, or from the end of the longest
\* track (AudioBufferSourceNode.start rejects a negative offset); seekTo
\* restarts a playing source from every other offset
PlayTimes == {0, MaxDuration}
\* seekTo(time): any number
SeekTimes == -1..(MaxDuration + 1)

Min(a, b) == IF a < b THEN a ELSE b
Max(a, b) == IF a > b THEN a ELSE b

\* ------------------------------------------------- numbers that are not whole

\* A JavaScript number that need not be whole is the fraction <<n, d>> in
\* lowest terms with d > 0; arithmetic on fractions is exact.
Abs(n) == IF n < 0 THEN -n ELSE n

RECURSIVE GCD(_, _)
GCD(a, b) == IF b = 0 THEN a ELSE GCD(b, a % b)

Rat(n, d) ==
    LET g == GCD(Abs(n), Abs(d))
        s == IF d < 0 THEN -1 ELSE 1
    IN  <<(s * n) \div g, (s * d) \div g>>

R(n) == <<n, 1>>

Plus(x, y) == Rat(x[1] * y[2] + y[1] * x[2], x[2] * y[2])
Minus(x, y) == Rat(x[1] * y[2] - y[1] * x[2], x[2] * y[2])
Times(x, y) == Rat(x[1] * y[1], x[2] * y[2])
\* x / y for y # 0
Over(x, y) == Rat(x[1] * y[2], x[2] * y[1])
Less(x, y) == x[1] * y[2] < y[1] * x[2]
LessEq(x, y) == x[1] * y[2] <= y[1] * x[2]
MathMin(x, y) == IF Less(y, x) THEN y ELSE x
MathMax(x, y) == IF Less(x, y) THEN y ELSE x
MathAbs(x) == <<Abs(x[1]), x[2]>>
\* Math.floor: the largest whole number not above x
MathFloor(x) == x[1] \div x[2]
\* Math.round: the nearest whole number, halves going up
MathRound(x) == (2 * x[1] + x[2]) \div (2 * x[2])
\* x % y: the remainder has the sign of x
Rem(x, y) ==
    LET q == Over(x, y)
        trunc == IF q[1] >= 0 THEN MathFloor(q) ELSE -MathFloor(<<-q[1], q[2]>>)
    IN  Minus(x, Times(R(trunc), y))
IsWhole(x) == x[2] = 1

VARIABLES
    audioData,          \* NoData, or the duration of the loaded AudioData
    ctxState,           \* audioData.context.state: "suspended" | "running"
    audioSource,        \* NoSource, or the id of the current source node
    animationFrameId,   \* NoFrame, or the id of the last frame request
    pausedTime,
    playbackStartTime,
    sources,            \* source id -> "free" | "playing" | "stopped" | "ended"
    endedQueue,         \* source nodes whose ended event is queued
    rafQueue,           \* pending animation-frame requests
    pendingPlays,       \* fromTime of each play() awaiting context.resume()
    raised,             \* the last step ended in an exception
    now,                \* performance.now() / 1000
    lastStep,           \* the last call or callback, and what it saw on entry
    pausedAt,           \* position stored by the last effective pause(), or -1
    objects,            \* editor store: object id -> its keyframes array
    bpm,                \* editor store: bpm
    dialogBpm,          \* NewProjectDialog: its local bpm state
    projects,           \* project store: the bpm of each project
    currentProject,     \* project store: index of the current project, or 0
    currentTime,        \* editor store: currentTime, in seconds
    duration,           \* editor store: duration, in seconds
    beatsPerMeasure,    \* editor store: beatsPerMeasure
    canvasWidth,        \* CanvasTimeline: canvasSize.width
    scrollOffset,       \* CanvasTimeline: scrollOffset
    isManualScrolling,  \* CanvasTimeline: isManualScrolling
    isDraggingPlayhead, \* CanvasTimeline: isDraggingPlayhead
    draggedKeyframe,    \* CanvasTimeline: draggedKeyframe, or NoDrag
    pixiWidth,          \* useTimeline: pixiSize.width
    pixiScrollOffset,   \* useTimeline: scrollOffset
    pixiDraggingPlayhead, \* useTimeline: isDraggingPlayhead
    keyDownScrollOffset,  \* scrollOffset in the context of the registered keydown handler
    selectedObjectId,   \* editor store: selectedObjectId, or NoSelection
    audioManager,       \* editor store: audioManager is not null
    seekTimers,         \* the times of the seeks setCurrentTime deferred by setTimeout
    isPlaying,          \* editor store: isPlaying
    isEditorPlaying,    \* editor store: isEditorPlaying
    isPreviewMode,      \* editor store: isPreviewMode
    audioFile,          \* editor store: audioFile, or NoFile
    audioBuffer,        \* editor store: audioBuffer (its duration), or NoData
    loading,            \* the file a loadAudioFile call is decoding, or NoFile
    playAudioCalls,     \* for each play() awaiting resume(): the mode of the playAudio
                        \* call awaiting it, or "none"
    app,                \* WebGLManager: app is not null
    contextLostCount,   \* WebGLManager: contextLostCount
    glContext,          \* the WebGL context of the canvas: "live" | "lost"
    restoreTimers,      \* the pending timeouts of the context recovery, each with the
                        \* number of the loss it follows
    pixiLoading,        \* useTimeline: pixiLoading
    lastRestore,        \* what the last onContextRestored timeout found
    fn,                 \* the function called last, or "none"
    args,               \* its arguments
    ret                 \* what it returned

\* a call of a function that reads and writes no state
funVars == <<fn, args, ret>>

audioVars == <<isPlaying, isEditorPlaying, isPreviewMode, audioFile, audioBuffer, loading,
               playAudioCalls>>

webglVars == <<app, contextLostCount, glContext, restoreTimers, pixiLoading, lastRestore>>

timelineVars == <<currentTime, duration, beatsPerMeasure, canvasWidth, scrollOffset,
                  isManualScrolling, isDraggingPlayhead, draggedKeyframe,
                  pixiWidth, pixiScrollOffset, pixiDraggingPlayhead,
                  keyDownScrollOffset, selectedObjectId, audioManager, seekTimers, audioVars,
                  webglVars>>

editorVars == <<objects, bpm, dialogBpm, projects, currentProject, timelineVars, funVars>>

clockHistory == <<now, lastStep, pausedAt>>

mgrVars == <<audioData, ctxState, audioSource, animationFrameId, pausedTime,
             playbackStartTime, sources, endedQueue, rafQueue, pendingPlays,
             raised>>

\* The AudioManager's fields (and the browser objects it owns) as one record,
\* so that a method calling another method is function composition.  `emits`
\* collects the states the step passes to onStateChange, in order.
Mgr ==
    [audioData |-> audioData, ctxState |-> ctxState, audioSource |-> audioSource,
     animationFrameId |-> animationFrameId, pausedTime |-> pausedTime,
     playbackStartTime |-> playbackStartTime, sources |-> sources,
     endedQueue |-> endedQueue, rafQueue |-> rafQueue,
     pendingPlays |-> pendingPlays, emits |-> <<>>, raised |-> FALSE]

SetMgr(m) ==
    /\ audioData' = m.audioData
    /\ ctxState' = m.ctxState
    /\ audioSource' = m.audioSource
    /\ animationFrameId' = m.animationFrameId
    /\ pausedTime' = m.pausedTime
    /\ playbackStartTime' = m.playbackStartTime
    /\ sources' = m.sources
    /\ endedQueue' = m.endedQueue
    /\ rafQueue' = m.rafQueue
    /\ pendingPlays' = m.pendingPlays
    /\ raised' = m.raised

\* ------------------------------------------------- AudioManager, queries

IsPlaying(m) == m.audioSource # NoSource

GetDuration(m) == IF m.audioData = NoData THEN 0 ELSE m.audioData

GetCurrentTimeUnclamped(m, t) ==
    IF m.audioData = NoData THEN 0
    ELSE IF m.audioSource # NoSource
         THEN m.pausedTime + (t - m.playbackStartTime)
         ELSE m.pausedTime

GetCurrentTime(m, t) ==
    IF m.audioData = NoData THEN 0
    ELSE IF m.audioSource # NoSource
         THEN Min(m.pausedTime + (t - m.playbackStartTime), m.audioData)
         ELSE m.pausedTime

EmitStateChange(m, t) ==
    [m EXCEPT !.emits = Append(@, [isPlaying |-> IsPlaying(m),
                                   isEditorPlaying |-> IsPlaying(m),
                                   currentTime |-> GetCurrentTime(m, t),
                                   duration |-> GetDuration(m)])]

\* ------------------------------------------------- browser objects

\* AudioBufferSourceNode.stop(): a playing node stops and its ended event is
\* queued; a node that already ended is left as it is.
SourceStop(m, s) ==
    IF m.sources[s] = "playing"
    THEN [m EXCEPT !.sources[s] = "stopped", !.endedQueue = @ \cup {s}]
    ELSE m

FreeSources(m) == {s \in SourceIds : m.sources[s] = "free"}
FreshSource(m) == CHOOSE s \in FreeSources(m) : \A r \in FreeSources(m) : s <= r
UnusedFrames(m) == {f \in FrameIds : f \notin m.rafQueue /\ f # m.animationFrameId}
FreshFrame(m) == CHOOSE f \in UnusedFrames(m) : \A g \in UnusedFrames(m) : f <= g

\* ------------------------------------------------- AudioManager, methods

StopTimeTrackingNoCancel(m) ==
    IF m.animationFrameId # NoFrame
    THEN [m EXCEPT !.animationFrameId = NoFrame]
    ELSE m

StopTimeTracking(m) ==
    IF m.animationFrameId # NoFrame
    THEN [m EXCEPT !.rafQueue = @ \ {m.animationFrameId}, !.animationFrameId = NoFrame]
    ELSE m

StartTimeTracking(m) ==
    LET m1 == StopTimeTracking(m)
        id == FreshFrame(m1)
    IN  [m1 EXCEPT !.rafQueue = @ \cup {id}, !.animationFrameId = id]

Stop(m, t) ==
    LET m1 == IF m.audioSource # NoSource
              THEN [SourceStop(m, m.audioSource) EXCEPT !.audioSource = NoSource]
              ELSE m
        m2 == StopTimeTracking(m1)
        m3 == [m2 EXCEPT !.pausedTime = 0]
    IN  EmitStateChange(m3, t)

Pause(m, t) ==
    IF m.audioSource # NoSource /\ m.audioData # NoData
    THEN LET m1 == [m EXCEPT !.pausedTime = GetCurrentTime(m, t)]
             m2 == [SourceStop(m1, m1.audioSource) EXCEPT !.audioSource = NoSource]
             m3 == StopTimeTracking(m2)
         IN  EmitStateChange(m3, t)
    ELSE m

\* play() from line 44 on: what runs once the context is running
PlayStartNoStop(m, fromTime, t) ==
    IF m.audioData = NoData
    THEN [m EXCEPT !.raised = TRUE]
    ELSE LET s  == FreshSource(m)
             m2 == [m EXCEPT !.audioSource = s, !.sources[s] = "playing",
                             !.playbackStartTime = t, !.pausedTime = fromTime]
             m3 == StartTimeTracking(m2)
         IN  EmitStateChange(m3, t)

PlayStart(m, fromTime, t) ==
    LET m1 == Stop(m, t)
    IN  IF m1.audioData = NoData
        THEN [m1 EXCEPT !.raised = TRUE]   \* this.audioData.context of null
        ELSE LET s  == FreshSource(m1)
                 m2 == [m1 EXCEPT !.audioSource = s, !.sources[s] = "playing",
                                  !.playbackStartTime = t, !.pausedTime = fromTime]
                 m3 == StartTimeTracking(m2)
             IN  EmitStateChange(m3, t)

\* play() up to its first await
Play(m, fromTime, t) ==
    IF m.audioData = NoData THEN m
    ELSE IF m.ctxState = "suspended"
         THEN [m EXCEPT !.pendingPlays = Append(@, fromTime)]
         ELSE PlayStart(m, fromTime, t)

SeekToNoResume(m, time, t) ==
    IF m.audioData = NoData THEN m
    ELSE LET m1 == Pause(m, t)
             m2 == [m1 EXCEPT !.pausedTime = Max(0, Min(time, m1.audioData))]
         IN  EmitStateChange(m2, t)

SeekToUnclamped(m, time, t) ==
    IF m.audioData = NoData THEN m
    ELSE LET wasPlaying == IsPlaying(m)
             m1 == Pause(m, t)
             m2 == [m1 EXCEPT !.pausedTime = time]
             m3 == IF wasPlaying THEN Play(m2, m2.pausedTime, t) ELSE m2
         IN  EmitStateChange(m3, t)

SeekTo(m, time, t) ==
    IF m.audioData = NoData THEN m
    ELSE LET wasPlaying == IsPlaying(m)
             m1 == Pause(m, t)
             m2 == [m1 EXCEPT !.pausedTime = Max(0, Min(time, m1.audioData))]
             m3 == IF wasPlaying THEN Play(m2, m2.pausedTime, t) ELSE m2
         IN  EmitStateChange(m3, t)

SetAudioDataNoStop(m, d, c, t) ==
    EmitStateChange([m EXCEPT !.audioData = d, !.ctxState = c, !.pausedTime = 0], t)

SetAudioData(m, d, c, t) ==
    LET m1 == Stop(m, t)
        m2 == [m1 EXCEPT !.audioData = d, !.ctxState = c, !.pausedTime = 0]
    IN  EmitStateChange(m2, t)

Cleanup(m, t) ==
    LET m1 == Stop(m, t)
        m2 == StopTimeTracking(m1)
    IN  [m2 EXCEPT !.audioData = NoData]

\* updateTime, the animation-frame callback of startTimeTracking
UpdateTimeStrict(m, t) ==
    IF m.audioSource # NoSource /\ m.audioData # NoData
    THEN IF GetCurrentTime(m, t) > m.audioData
         THEN Stop(m, t)
         ELSE LET m1 == EmitStateChange(m, t)
                  id == FreshFrame(m1)
              IN  [m1 EXCEPT !.rafQueue = @ \cup {id}, !.animationFrameId = id]
    ELSE m

UpdateTime(m, t) ==
    IF m.audioSource # NoSource /\ m.audioData # NoData
    THEN IF GetCurrentTime(m, t) >= m.audioData
         THEN Stop(m, t)
         ELSE LET m1 == EmitStateChange(m, t)
                  id == FreshFrame(m1)
              IN  [m1 EXCEPT !.rafQueue = @ \cup {id}, !.animationFrameId = id]
    ELSE m

\* ------------------------------------------------- editor store: keyframes

\* Latest keyframe time a caller passes, in seconds
MaxTime == 2
\* Longest keyframes array
MaxKeyframes == 3

\* duration of the store before any audio is loaded
StoreDuration == 5
DefaultBpm == 120

Zero3 == <<0, 0, 0>>
ObjectIds == {"1", "2"}
KeyframeTimes == 0..MaxTime
\* where the pointer can be on the time axis, left of 0 included
PointerTimes == -1..MaxTime
\* the keyframes a caller passes to addKeyframe and updateKeyframe
KeyframeInputs == {[time |-> R(t), position |-> Zero3, rotation |-> Zero3] : t \in KeyframeTimes}

InitialObjects ==
    [o \in ObjectIds |->
        IF o = "1" THEN <<[time |-> R(0), position |-> <<-1, 1, 0>>, rotation |-> Zero3]>>
                   ELSE <<[time |-> R(0), position |-> <<1, 1, 0>>, rotation |-> Zero3]>>]

\* Array.prototype.sort((a, b) => a.time - b.time): stable
RECURSIVE InsertByTime(_, _)
InsertByTime(sorted, kf) ==
    IF sorted = <<>> THEN <<kf>>
    ELSE IF LessEq(sorted[Len(sorted)].time, kf.time)
         THEN Append(sorted, kf)
         ELSE Append(InsertByTime(SubSeq(sorted, 1, Len(sorted) - 1), kf), sorted[Len(sorted)])

RECURSIVE SortByTime(_)
SortByTime(kfs) ==
    IF kfs = <<>> THEN <<>>
    ELSE InsertByTime(SortByTime(SubSeq(kfs, 1, Len(kfs) - 1)), kfs[Len(kfs)])

\* keyframeIndex counts from 0 in the code and from 1 here
AddKeyframe(objs, objectId, keyframe) ==
    [o \in DOMAIN objs |->
        IF o = objectId THEN SortByTime(Append(objs[o], keyframe)) ELSE objs[o]]

UpdateKeyframe(objs, objectId, keyframeIndex, keyframe) ==
    [o \in DOMAIN objs |->
        IF o = objectId
        THEN [i \in 1..Len(objs[o]) |-> IF i = keyframeIndex THEN keyframe ELSE objs[o][i]]
        ELSE objs[o]]

RECURSIVE Without(_, _)
Without(kfs, keyframeIndex) ==
    IF kfs = <<>> THEN <<>>
    ELSE IF Len(kfs) = keyframeIndex
         THEN SubSeq(kfs, 1, Len(kfs) - 1)
         ELSE Append(Without(SubSeq(kfs, 1, Len(kfs) - 1), keyframeIndex), kfs[Len(kfs)])

DeleteKeyframe(objs, objectId, keyframeIndex) ==
    [o \in DOMAIN objs |->
        IF o = objectId THEN Without(objs[o], keyframeIndex) ELSE objs[o]]

EditorInit ==
    /\ objects = InitialObjects
    /\ bpm = DefaultBpm
    /\ dialogBpm = DefaultBpm
    /\ projects = <<>>
    /\ currentProject = 0

bpmVars == <<bpm, dialogBpm, projects, currentProject>>

\* ------------------------------------------------- BPM: store, header, projects

\* Projects the project store can hold
MaxProjects == 2

\* min and max of the dialog's BPM field, which the browser enforces when the
\* form is submitted
DialogBpmMin == 60
DialogBpmMax == 300

\* What can be typed into a number field: nothing (or no number), or a number
BpmTexts ==
    {[empty |-> TRUE, val |-> 0]}
        \cup {[empty |-> FALSE, val |-> v] : v \in {-60, 0, 30, 120, 250, 500}}

\* Number(e.target.value) || 120: Number("") is 0, and 0 is falsy
HeaderBpmValue(text) ==
    LET n == IF text.empty THEN 0 ELSE text.val
    IN  IF n = 0 THEN DefaultBpm ELSE n

\* parseInt(e.target.value) || 120: parseInt("") is NaN, NaN and 0 are falsy
DialogBpmValue(text) ==
    IF text.empty \/ text.val = 0 THEN DefaultBpm ELSE text.val

\* setBpm: (bpm) => set({ bpm })
SetBpm(value) == value

SetBpmCall(v) ==
    /\ bpm' = SetBpm(v)
    /\ UNCHANGED <<mgrVars, clockHistory, timelineVars, funVars, objects, dialogBpm, projects, currentProject>>

\* the BPM field of the app header changes
HeaderBpmInput(text) ==
    /\ bpm' = SetBpm(HeaderBpmValue(text))
    /\ UNCHANGED <<mgrVars, clockHistory, timelineVars, funVars, objects, dialogBpm, projects, currentProject>>

\* the BPM field of the new-project dialog changes
DialogBpmInput(text) ==
    /\ dialogBpm' = DialogBpmValue(text)
    /\ UNCHANGED <<mgrVars, clockHistory, timelineVars, funVars, objects, bpm, projects, currentProject>>

\* the dialog is submitted: createProject, then setBpm(projectBpm)
DialogSubmit ==
    /\ dialogBpm >= DialogBpmMin /\ dialogBpm <= DialogBpmMax
    /\ Len(projects) < MaxProjects
    /\ projects' = Append(projects, dialogBpm)
    /\ currentProject' = Len(projects) + 1
    /\ bpm' = SetBpm(dialogBpm)
    /\ dialogBpm' = DefaultBpm
    /\ UNCHANGED <<mgrVars, clockHistory, timelineVars, funVars, objects>>

\* a project of the list is opened: loadProject, then setBpm(project.bpm)
LoadProject(i) ==
    /\ i \in 1..Len(projects)
    /\ currentProject' = i
    /\ bpm' = SetBpm(projects[i])
    /\ UNCHANGED <<mgrVars, clockHistory, timelineVars, funVars, objects, dialogBpm, projects>>

\* the sidebar's effect: the current project follows the store's bpm
SyncProject ==
    /\ currentProject # 0
    /\ projects[currentProject] # bpm
    /\ projects' = [projects EXCEPT ![currentProject] = bpm]
    /\ UNCHANGED <<mgrVars, clockHistory, timelineVars, funVars, objects, bpm, dialogBpm, currentProject>>

AddKeyframeCall(o, kf) ==
    /\ o \in ObjectIds => Len(objects[o]) < MaxKeyframes
    /\ objects' = AddKeyframe(objects, o, kf)
    /\ UNCHANGED <<mgrVars, clockHistory, timelineVars, funVars, bpmVars>>

UpdateKeyframeCall(o, i, kf) ==
    /\ objects' = UpdateKeyframe(objects, o, i, kf)
    /\ UNCHANGED <<mgrVars, clockHistory, timelineVars, funVars, bpmVars>>

DeleteKeyframeCall(o, i) ==
    /\ objects' = DeleteKeyframe(objects, o, i)
    /\ UNCHANGED <<mgrVars, clockHistory, timelineVars, funVars, bpmVars>>

\* CanvasTimeline handleMouseMove while a keyframe is dragged: the keyframe
\* takes the pointer's time, clamped to [0, duration]
DragKeyframe(o, i, newTime) ==
    /\ i \in 1..Len(objects[o])
    /\ objects' = UpdateKeyframe(objects, o, i,
                     [objects[o][i] EXCEPT !.time = MathMax(R(0), MathMin(R(StoreDuration), R(newTime)))])
    /\ UNCHANGED <<mgrVars, clockHistory, timelineVars, funVars, bpmVars>>

\* CanvasTimeline handleDoubleClick on an empty place of a track: a keyframe is
\* added unless one lies within 0.1 s of the pointer's time
DoubleClickTrack(o, time) ==
    /\ Len(objects[o]) < MaxKeyframes
    /\ objects' = IF \E i \in 1..Len(objects[o]) : objects[o][i].time = R(time)
                  THEN objects
                  ELSE AddKeyframe(objects, o, [time |-> R(time), position |-> Zero3,
                                                rotation |-> Zero3])
    /\ UNCHANGED <<mgrVars, clockHistory, timelineVars, funVars, bpmVars>>

NextKeyframes ==
    \/ \E o \in ObjectIds \cup {"3"}, kf \in KeyframeInputs : AddKeyframeCall(o, kf)
    \/ \E o \in ObjectIds \cup {"3"}, i \in 1..(MaxKeyframes + 1), kf \in KeyframeInputs :
          UpdateKeyframeCall(o, i, kf)
    \/ \E o \in ObjectIds \cup {"3"}, i \in 1..(MaxKeyframes + 1) : DeleteKeyframeCall(o, i)
    \/ \E o \in ObjectIds, i \in 1..MaxKeyframes, t \in PointerTimes : DragKeyframe(o, i, t)
    \/ \E o \in ObjectIds, t \in KeyframeTimes : DoubleClickTrack(o, t)

\* ------------------------------------------------- timeline and pure calls: initial state

NoDrag == [objectId |-> "", keyframeIndex |-> 0]
NoSelection == ""
NoFile == ""
\* useState({ width: 800, height: 300 })
InitialWidth == 800
InitialBeatsPerMeasure == 4

TimelineInit ==
    /\ currentTime = R(0)
    /\ duration = R(StoreDuration)
    /\ beatsPerMeasure = InitialBeatsPerMeasure
    /\ canvasWidth = InitialWidth
    /\ scrollOffset = R(0)
    /\ isManualScrolling = FALSE
    /\ isDraggingPlayhead = FALSE
    /\ draggedKeyframe = NoDrag
    /\ pixiWidth = InitialWidth
    /\ pixiScrollOffset = R(0)
    /\ pixiDraggingPlayhead = FALSE
    /\ keyDownScrollOffset = R(0)
    /\ selectedObjectId = NoSelection
    /\ audioManager = FALSE
    /\ seekTimers = <<>>
    /\ isPlaying = FALSE
    /\ isEditorPlaying = FALSE
    /\ isPreviewMode = FALSE
    /\ audioFile = NoFile
    /\ audioBuffer = NoData
    /\ loading = NoFile
    /\ playAudioCalls = <<>>
    /\ app = FALSE
    /\ contextLostCount = 0
    /\ glContext = "live"
    /\ restoreTimers = {}
    /\ pixiLoading = TRUE
    /\ lastRestore = [loss |-> 0, latest |-> TRUE, valid |-> TRUE]

FunInit ==
    /\ fn = "none"
    /\ args = <<>>
    /\ ret = 0

\* f(a) is called and returns r; nothing else happens.  These functions read
\* no state, so the first call shows all a later one could.
FunCall(f, a, r) ==
    /\ fn = "none"
    /\ fn' = f
    /\ args' = a
    /\ ret' = r
    /\ UNCHANGED <<mgrVars, clockHistory, objects, bpmVars, timelineVars>>

\* ------------------------------------------------- interpolateKeyframes

\* position and rotation of the keyframes passed to interpolateKeyframes
Transforms ==
    {[position |-> <<2, 0, 0>>, rotation |-> <<0, 0, 0>>],
     [position |-> <<1, -2, 4>>, rotation |-> <<3, 1, -1>>]}
\* and their times, in seconds
InterpTimes == {0, 1, 2}

InterpKeyframes ==
    {[time |-> R(t), position |-> tr.position, rotation |-> tr.rotation] :
        t \in InterpTimes, tr \in Transforms}

\* arrays of at most n keyframes
RECURSIVE KeyframeArrays(_)
KeyframeArrays(n) ==
    IF n = 0 THEN {<<>>}
    ELSE LET shorter == KeyframeArrays(n - 1)
         IN  shorter \cup {Append(a, k) : a \in {b \in shorter : Len(b) = n - 1},
                                          k \in InterpKeyframes}

\* Length of the arrays in which keyframes share a time
SharedTimesLen == 4
\* arrays of that length, the i-th keyframe at position (i, 0, 0), with
\* every choice of times
SharedTimeArrays ==
    {[i \in 1..SharedTimesLen |-> [time |-> R(times[i]), position |-> <<i, 0, 0>>,
                                   rotation |-> Zero3]] :
        times \in [1..SharedTimesLen -> InterpTimes]}

\* the times asked for: every half second from -0.5 to past the last keyframe
QueryTimes == {Rat(k, 2) : k \in -1..(2 * MaxTime + 1)}

\* a position or rotation array, as numbers
Vec(p) == <<R(p[1]), R(p[2]), R(p[3])>>

\* what a division by zero gives, NaN or an infinity, and all that is
\* computed from it
NotFinite == <<0, 0>>

\* x / y of two numbers
Divide(x, y) == IF y = R(0) THEN NotFinite ELSE Over(x, y)

\* current + (next - current) * t
Lerp(current, next, t) ==
    IF t = NotFinite THEN NotFinite
    ELSE Plus(R(current), Times(Minus(R(next), R(current)), t))

Lerp3(current, next, t) ==
    <<Lerp(current[1], next[1], t), Lerp(current[2], next[2], t), Lerp(current[3], next[3], t)>>

RECURSIVE InterpolateFromWrongSpan(_, _, _, _)
InterpolateFromWrongSpan(sortedKeyframes, time, i, otherwise) ==
    IF i > Len(sortedKeyframes) - 1 THEN otherwise
    ELSE LET current == sortedKeyframes[i]
             next == sortedKeyframes[i + 1]
         IN  IF LessEq(current.time, time) /\ LessEq(time, next.time)
             THEN LET t == Over(Minus(time, current.time), next.time)
                  IN  [position |-> Lerp3(current.position, next.position, t),
                       rotation |-> Lerp3(current.rotation, next.rotation, t)]
             ELSE InterpolateFromWrongSpan(sortedKeyframes, time, i + 1, otherwise)

\* the for loop, from index i (counted from 1); `otherwise` is what the
\* return after the loop gives
RECURSIVE InterpolateFrom(_, _, _, _)
InterpolateFrom(sortedKeyframes, time, i, otherwise) ==
    IF i > Len(sortedKeyframes) - 1 THEN otherwise
    ELSE LET current == sortedKeyframes[i]
             next == sortedKeyframes[i + 1]
         IN  IF LessEq(current.time, time) /\ LessEq(time, next.time)
             THEN LET t == Divide(Minus(time, current.time), Minus(next.time, current.time))
                  IN  [position |-> Lerp3(current.position, next.position, t),
                       rotation |-> Lerp3(current.rotation, next.rotation, t)]
             ELSE InterpolateFrom(sortedKeyframes, time, i + 1, otherwise)

InterpolateKeyframesNoFirstClamp(keyframes, time) ==
    IF Len(keyframes) = 0 THEN [position |-> Vec(Zero3), rotation |-> Vec(Zero3)]
    ELSE IF Len(keyframes) = 1
    THEN [position |-> Vec(keyframes[1].position), rotation |-> Vec(keyframes[1].rotation)]
    ELSE LET sortedKeyframes == SortByTime(keyframes)
             last == sortedKeyframes[Len(sortedKeyframes)]
         IN  IF LessEq(last.time, time)
             THEN [position |-> Vec(last.position), rotation |-> Vec(last.rotation)]
             ELSE InterpolateFrom(sortedKeyframes, time, 1,
                                  [position |-> Vec(sortedKeyframes[1].position),
                                   rotation |-> Vec(sortedKeyframes[1].rotation)])

InterpolateKeyframesNoLastClamp(keyframes, time) ==
    IF Len(keyframes) = 0 THEN [position |-> Vec(Zero3), rotation |-> Vec(Zero3)]
    ELSE IF Len(keyframes) = 1
    THEN [position |-> Vec(keyframes[1].position), rotation |-> Vec(keyframes[1].rotation)]
    ELSE LET sortedKeyframes == SortByTime(keyframes)
         IN  IF LessEq(time, sortedKeyframes[1].time)
             THEN [position |-> Vec(sortedKeyframes[1].position),
                   rotation |-> Vec(sortedKeyframes[1].rotation)]
             ELSE InterpolateFrom(sortedKeyframes, time, 1,
                                  [position |-> Vec(sortedKeyframes[1].position),
                                   rotation |-> Vec(sortedKeyframes[1].rotation)])

\* BeatSaberBlock
InterpolateKeyframes(keyframes, time) ==
    IF Len(keyframes) = 0 THEN [position |-> Vec(Zero3), rotation |-> Vec(Zero3)]
    ELSE IF Len(keyframes) = 1
    THEN [position |-> Vec(keyframes[1].position), rotation |-> Vec(keyframes[1].rotation)]
    ELSE LET sortedKeyframes == SortByTime(keyframes)
             last == sortedKeyframes[Len(sortedKeyframes)]
         IN  IF LessEq(time, sortedKeyframes[1].time)
             THEN [position |-> Vec(sortedKeyframes[1].position),
                   rotation |-> Vec(sortedKeyframes[1].rotation)]
             ELSE IF LessEq(last.time, time)
             THEN [position |-> Vec(last.position), rotation |-> Vec(last.rotation)]
             ELSE InterpolateFrom(sortedKeyframes, time, 1,
                                  [position |-> Vec(sortedKeyframes[1].position),
                                   rotation |-> Vec(sortedKeyframes[1].rotation)])

\* a keyframe, returned whole
Whole(kf) == [time |-> kf.time, position |-> Vec(kf.position), rotation |-> Vec(kf.rotation)]

\* BeatSaberBomb: the keyframe itself is returned where the block's copy
\* returns its position and rotation
BombInterpolateKeyframes(keyframes, time) ==
    IF Len(keyframes) = 0 THEN [position |-> Vec(Zero3), rotation |-> Vec(Zero3)]
    ELSE IF Len(keyframes) = 1 THEN Whole(keyframes[1])
    ELSE LET sortedKeyframes == SortByTime(keyframes)
         IN  IF LessEq(time, sortedKeyframes[1].time) THEN Whole(sortedKeyframes[1])
             ELSE IF LessEq(sortedKeyframes[Len(sortedKeyframes)].time, time)
             THEN Whole(sortedKeyframes[Len(sortedKeyframes)])
             ELSE InterpolateFrom(sortedKeyframes, time, 1, Whole(sortedKeyframes[1]))

BlockInterpolateCall(keyframes, time) ==
    FunCall("BeatSaberBlock.interpolateKeyframes", <<keyframes, time>>,
            InterpolateKeyframes(keyframes, time))

BombInterpolateCall(keyframes, time) ==
    FunCall("BeatSaberBomb.interpolateKeyframes", <<keyframes, time>>,
            BombInterpolateKeyframes(keyframes, time))

NextInterpolate ==
    \/ \E keyframes \in KeyframeArrays(MaxKeyframes), time \in QueryTimes :
          BlockInterpolateCall(keyframes, time)
    \/ \E keyframes \in KeyframeArrays(MaxKeyframes), time \in QueryTimes :
          BombInterpolateCall(keyframes, time)
    \/ \E keyframes \in SharedTimeArrays, time \in QueryTimes :
          BlockInterpolateCall(keyframes, time)
    \/ \E keyframes \in SharedTimeArrays, time \in QueryTimes :
          BombInterpolateCall(keyframes, time)

\* ------------------------------------------------- the beat grid

\* the time signatures of the header's select
BeatsPerMeasureChoices == {2, 3, 4, 5, 6, 7}
\* bpm values the store can hold; 60 / 0 is not a number and is left out
GridBpms == {-60, 90, 120, 250}
\* times on a grid of 1/32 s, from a quarter second before 0
GridTimes == {Rat(k, 32) : k \in -8..(32 * MaxTime)}

\* timelineDrawing.ts
GetBeatDuration(b) == Over(R(60), R(b))
GetMeasureDuration(b, n) == Times(GetBeatDuration(b), R(n))
GetSubdivisionDuration(b, n) == Over(GetMeasureDuration(b, n), R(16))

GetBeatInfo(time, b, n) ==
    LET beatDuration == GetBeatDuration(b)
        beatPosition == Over(time, beatDuration)
    IN  [measure |-> MathFloor(Over(beatPosition, R(n))),
         beatInMeasure |-> MathFloor(Rem(beatPosition, R(n))),
         subdivision |-> MathFloor(Rem(Over(time, GetSubdivisionDuration(b, n)), R(16))),
         totalBeats |-> beatPosition]

\* App.tsx
AppGetBeatInfo(time, b, n) ==
    LET beatDuration == Over(R(60), R(b))
        beatPosition == Over(time, beatDuration)
    IN  [measure |-> MathFloor(Over(beatPosition, R(n))),
         beatInMeasure |-> MathFloor(Rem(beatPosition, R(n))),
         subdivision |->
             MathFloor(Rem(Over(time, Over(Times(beatDuration, R(n)), R(16))), R(16)))]

SnapToNextSubdivision(time, b, n) ==
    LET subdivisionDuration == GetSubdivisionDuration(b, n)
    IN  Times(R(MathFloor(Over(time, subdivisionDuration)) + 1), subdivisionDuration)

\* timelineEvents.ts
SnapToSubdivision(time, b, n) ==
    LET subdivisionDuration == GetSubdivisionDuration(b, n)
    IN  Times(R(MathRound(Over(time, subdivisionDuration))), subdivisionDuration)

\* CanvasTimeline.tsx, Timeline.tsx and Timeline3DObjectPlacer.tsx: each has
\* its own copy, which reads the store's bpm only
GetSixteenthInterval(b) ==
    LET beatInterval == Over(R(60), R(b))
    IN  Over(beatInterval, R(4))

TimelineGetSixteenthInterval(b) ==
    LET beatInterval == Over(R(60), R(b))
    IN  Over(beatInterval, R(4))

PlacerSixteenthInterval(b) ==
    LET beatInterval == Over(R(60), R(b))
    IN  Over(beatInterval, R(4))

\* Math.round(time / sixteenthInterval) * sixteenthInterval
SnapToSixteenth(time, sixteenthInterval) ==
    Times(R(MathRound(Over(time, sixteenthInterval))), sixteenthInterval)

SnapCall(time, b, n) ==
    FunCall("snapToSubdivision", <<time, b, n>>, SnapToSubdivision(time, b, n))

GetBeatInfoCall(time, b, n) ==
    FunCall("getBeatInfo", <<time, b, n>>, GetBeatInfo(time, b, n))

AppGetBeatInfoCall(time, b, n) ==
    FunCall("App.getBeatInfo", <<time, b, n>>, AppGetBeatInfo(time, b, n))

\* the step of a component, the store holding bpm b and beatsPerMeasure n
CanvasStepCall(b, n) ==
    FunCall("CanvasTimeline.getSixteenthInterval", <<b, n>>, GetSixteenthInterval(b))

TimelineStepCall(b, n) ==
    FunCall("Timeline.getSixteenthInterval", <<b, n>>, TimelineGetSixteenthInterval(b))

PlacerStepCall(b, n) ==
    FunCall("Timeline3DObjectPlacer.sixteenthInterval", <<b, n>>, PlacerSixteenthInterval(b))

SubdivisionStepCall(b, n) ==
    FunCall("getSubdivisionDuration", <<b, n>>, GetSubdivisionDuration(b, n))

NextGrid ==
    \/ \E time \in GridTimes, b \in GridBpms, n \in BeatsPerMeasureChoices : SnapCall(time, b, n)
    \/ \E time \in GridTimes, b \in GridBpms, n \in BeatsPerMeasureChoices :
          GetBeatInfoCall(time, b, n)
    \/ \E time \in GridTimes, b \in GridBpms, n \in BeatsPerMeasureChoices :
          AppGetBeatInfoCall(time, b, n)
    \/ \E b \in GridBpms, n \in BeatsPerMeasureChoices : CanvasStepCall(b, n)
    \/ \E b \in GridBpms, n \in BeatsPerMeasureChoices : TimelineStepCall(b, n)
    \/ \E b \in GridBpms, n \in BeatsPerMeasureChoices : PlacerStepCall(b, n)
    \/ \E b \in GridBpms, n \in BeatsPerMeasureChoices : SubdivisionStepCall(b, n)

\* ------------------------------------------------- widths and positions

\* utils/timelineUtils.ts
PIXELS_PER_SECOND == 100
MAX_DURATION == 600
\* the two-argument getTimelineWidth
DEFAULT_PIXELS_PER_SECOND == 100
MIN_PIXELS_PER_SECOND == 20
HEADER_WIDTH == 120

\* availableWidth left out by the caller
NoWidth == 0

\* durations of a track, in seconds: 0, fractions, the cap and past it
LayoutDurations ==
    {R(0), R(1), Rat(5, 2), R(StoreDuration), R(10), R(36), R(MAX_DURATION),
     R(MAX_DURATION + 100)}
\* widths of the container, in pixels
LayoutWidths == {100, 400, InitialWidth, 1200}
\* where a time lies, as a part of the duration
LayoutParts == {Rat(-1, 4), R(0), Rat(1, 4), Rat(1, 3), R(1), Rat(5, 4)}
LayoutScrollOffsets == {R(0), R(30), Rat(441, 2)}

GetTimelineWidthUncapped(d) == Times(d, R(PIXELS_PER_SECOND))

\* getTimelineWidth(duration) of utils/timelineUtils.ts
GetTimelineWidth(d) ==
    LET safeDuration == MathMin(d, R(MAX_DURATION))
    IN  Times(safeDuration, R(PIXELS_PER_SECOND))

\* getTimelineWidth(duration, availableWidth) as useTimeline imports it
GetTimelineWidthIn(d, availableWidth) ==
    LET safeDuration == MathMin(d, R(MAX_DURATION))
    IN  IF availableWidth # NoWidth /\ Less(R(0), safeDuration)
        THEN LET contentWidth == R(availableWidth - HEADER_WIDTH)
                 pixelsPerSecond == Over(contentWidth, safeDuration)
             IN  IF LessEq(R(MIN_PIXELS_PER_SECOND), pixelsPerSecond)
                 THEN MathMax(contentWidth, Times(safeDuration, R(MIN_PIXELS_PER_SECOND)))
                 ELSE Times(safeDuration, R(MIN_PIXELS_PER_SECOND))
        ELSE Times(safeDuration, R(DEFAULT_PIXELS_PER_SECOND))

\* CanvasTimeline: where a time is drawn, for duration d # 0
PlayheadX(time, d, offset) ==
    Minus(Plus(R(HEADER_WIDTH), Times(Over(time, d), GetTimelineWidth(d))), offset)

GetTimeFromXNoScroll(x, d, offset) ==
    LET timelineX == Minus(x, R(HEADER_WIDTH))
    IN  Times(Over(timelineX, GetTimelineWidth(d)), d)

\* CanvasTimeline: the time of a pixel, for duration d # 0
GetTimeFromX(x, d, offset) ==
    LET timelineX == Plus(Minus(x, R(HEADER_WIDTH)), offset)
    IN  Times(Over(timelineX, GetTimelineWidth(d)), d)

\* fileSize?: number, when the caller leaves it out
NoSize == -1
\* 50 * 1024 * 1024
SafeFileSize == 50 * 1024 * 1024
\* durations and file sizes around the two limits
SafetyDurations == {R(0), R(300), R(MAX_DURATION), Rat(2 * MAX_DURATION + 1, 2), R(MAX_DURATION + 1)}
SafetyFileSizes == {NoSize, 0, 10 * 1024 * 1024, SafeFileSize, SafeFileSize + 1, 60 * 1024 * 1024}

IsAudioSafeSizeExclusive(d, fileSize) ==
    IF Less(R(MAX_DURATION), d) THEN FALSE
    ELSE IF (fileSize # NoSize /\ fileSize # 0) /\ fileSize >= SafeFileSize THEN FALSE
    ELSE TRUE

\* timelineUtils.ts isAudioSafe; `fileSize &&` is false for a size left out
\* and for 0
IsAudioSafe(d, fileSize) ==
    IF Less(R(MAX_DURATION), d) THEN FALSE
    ELSE IF (fileSize # NoSize /\ fileSize # 0) /\ fileSize > SafeFileSize THEN FALSE
    ELSE TRUE

IsAudioSafeCall(d, fileSize) ==
    FunCall("isAudioSafe", <<d, fileSize>>, IsAudioSafe(d, fileSize))

GetTimelineWidthCall(d) ==
    FunCall("getTimelineWidth", <<d>>, GetTimelineWidth(d))

GetTimelineWidthInCall(d, availableWidth) ==
    FunCall("getTimelineWidth/2", <<d, availableWidth>>, GetTimelineWidthIn(d, availableWidth))

PlayheadXCall(time, d, offset) ==
    /\ d # R(0)
    /\ FunCall("playheadX", <<time, d, offset>>, PlayheadX(time, d, offset))

GetTimeFromXCall(x, d, offset) ==
    /\ d # R(0)
    /\ FunCall("getTimeFromX", <<x, d, offset>>, GetTimeFromX(x, d, offset))

NextLayout ==
    \/ \E d \in LayoutDurations : GetTimelineWidthCall(d)
    \/ \E d \in SafetyDurations, fileSize \in SafetyFileSizes : IsAudioSafeCall(d, fileSize)
    \/ \E d \in LayoutDurations, w \in LayoutWidths \cup {NoWidth} : GetTimelineWidthInCall(d, w)
    \/ \E d \in LayoutDurations, part \in LayoutParts, offset \in LayoutScrollOffsets :
          PlayheadXCall(Times(part, d), d, offset)
    \/ \E d \in LayoutDurations \ {R(0)}, part \in LayoutParts, offset \in LayoutScrollOffsets :
          \E x \in {PlayheadX(Times(part, d), d, offset)} : GetTimeFromXCall(x, d, offset)

\* ------------------------------------------------- steps of the clock

vars == <<audioData, ctxState, audioSource, animationFrameId, pausedTime,
          playbackStartTime, sources, endedQueue, rafQueue, pendingPlays,
          raised, now, lastStep, pausedAt,
          objects, bpm, dialogBpm, projects, currentProject,
          currentTime, duration, beatsPerMeasure, canvasWidth, scrollOffset,
          isManualScrolling, isDraggingPlayhead, draggedKeyframe,
          pixiWidth, pixiScrollOffset, pixiDraggingPlayhead,
          keyDownScrollOffset, selectedObjectId, audioManager, seekTimers,
          isPlaying, isEditorPlaying, isPreviewMode, audioFile, audioBuffer, loading,
          playAudioCalls, app, contextLostCount, glContext, restoreTimers, pixiLoading,
          lastRestore, fn, args, ret>>

\* What a call or callback finds when it is entered
Entry(name, arg) ==
    [name |-> name, arg |-> arg,
     wasPlaying |-> IsPlaying(Mgr),
     atEnd |-> audioData # NoData /\ GetCurrentTime(Mgr, now) >= audioData]

CanCreateSource == FreeSources(Mgr) # {}

ClockInit ==
    /\ audioData = NoData
    /\ ctxState = "suspended"
    /\ audioSource = NoSource
    /\ animationFrameId = NoFrame
    /\ pausedTime = 0
    /\ playbackStartTime = 0
    /\ sources = [s \in SourceIds |-> "free"]
    /\ endedQueue = {}
    /\ rafQueue = {}
    /\ pendingPlays = <<>>
    /\ raised = FALSE
    /\ now = 0
    /\ lastStep = [name |-> "new", arg |-> 0, wasPlaying |-> FALSE, atEnd |-> FALSE]
    /\ pausedAt = -1

Init == ClockInit /\ EditorInit /\ TimelineInit /\ FunInit

SetAudioDataCall(d, c) ==
    /\ SetMgr(SetAudioData(Mgr, d, c, now))
    /\ lastStep' = Entry("setAudioData", 0)
    /\ pausedAt' = -1
    /\ UNCHANGED <<now, editorVars>>

PlayCall(fromTime) ==
    /\ CanCreateSource
    /\ Len(pendingPlays) < MaxPending
    /\ SetMgr(Play(Mgr, fromTime, now))
    /\ lastStep' = Entry("play", 0)
    /\ pausedAt' = -1
    /\ UNCHANGED <<now, editorVars>>

\* context.resume() settles: the oldest waiting play() goes on from line 44
PlayResumed ==
    /\ pendingPlays # <<>>
    /\ CanCreateSource
    /\ SetMgr(PlayStart([Mgr EXCEPT !.pendingPlays = Tail(@), !.ctxState = "running"],
                        Head(pendingPlays), now))
    /\ lastStep' = Entry("playResumed", 0)
    /\ pausedAt' = -1
    /\ UNCHANGED <<now, editorVars>>

PauseCall ==
    /\ SetMgr(Pause(Mgr, now))
    /\ lastStep' = Entry("pause", 0)
    /\ pausedAt' = IF audioSource # NoSource /\ audioData # NoData
                   THEN GetCurrentTime(Mgr, now)
                   ELSE pausedAt
    /\ UNCHANGED <<now, editorVars>>

StopCall ==
    /\ SetMgr(Stop(Mgr, now))
    /\ lastStep' = Entry("stop", 0)
    /\ pausedAt' = -1
    /\ UNCHANGED <<now, editorVars>>

SeekToCall(time) ==
    /\ CanCreateSource
    /\ Len(pendingPlays) < MaxPending
    /\ SetMgr(SeekTo(Mgr, time, now))
    /\ lastStep' = Entry("seekTo", time)
    /\ pausedAt' = -1
    /\ UNCHANGED <<now, editorVars>>

CleanupCall ==
    /\ SetMgr(Cleanup(Mgr, now))
    /\ lastStep' = Entry("cleanup", 0)
    /\ pausedAt' = -1
    /\ UNCHANGED <<now, editorVars>>

\* a caller polls getCurrentTime(): nothing changes
GetCurrentTimeCall ==
    /\ SetMgr(Mgr)
    /\ lastStep' = Entry("getCurrentTime", 0)
    /\ UNCHANGED <<now, pausedAt, editorVars>>

\* the browser runs the pending animation-frame callback f
FrameTick(f) ==
    /\ f \in rafQueue
    /\ SetMgr(UpdateTime([Mgr EXCEPT !.rafQueue = @ \ {f}], now))
    /\ lastStep' = Entry("frame", 0)
    /\ UNCHANGED <<now, pausedAt, editorVars>>

\* the current source plays to the end of its buffer
SourceEnds(s) ==
    /\ s = audioSource
    /\ sources[s] = "playing"
    /\ audioData # NoData
    /\ pausedTime + (now - playbackStartTime) >= audioData
    /\ SetMgr([Mgr EXCEPT !.sources[s] = "ended", !.endedQueue = @ \cup {s}])
    /\ lastStep' = Entry("sourceEnds", 0)
    /\ UNCHANGED <<now, pausedAt, editorVars>>

\* the browser delivers the ended event of s: onended calls this.stop()
OnEnded(s) ==
    /\ s \in endedQueue
    /\ SetMgr(Stop([Mgr EXCEPT !.endedQueue = @ \ {s}, !.sources[s] = "free"], now))
    /\ lastStep' = Entry("ended", 0)
    /\ UNCHANGED <<now, pausedAt, editorVars>>

Tick ==
    /\ now < MaxNow
    /\ now' = now + 1
    /\ UNCHANGED <<mgrVars, lastStep, pausedAt, editorVars>>

Next ==
    \/ \E d \in Durations \cup {NoData}, c \in {"suspended", "running"} :
          SetAudioDataCall(d, c)
    \/ \E t \in PlayTimes : PlayCall(t)
    \/ PlayResumed
    \/ PauseCall
    \/ StopCall
    \/ \E t \in SeekTimes : SeekToCall(t)
    \/ CleanupCall
    \/ GetCurrentTimeCall
    \/ \E f \in FrameIds : FrameTick(f)
    \/ \E s \in SourceIds : SourceEnds(s)
    \/ \E s \in SourceIds : OnEnded(s)
    \/ Tick

Spec == Init /\ [][Next]_vars

\* ------------------------------------------------- the editor store, as callers see it

SpecKeyframes == Init /\ [][NextKeyframes]_vars

NextBpm ==
    \/ \E t \in BpmTexts : SetBpmCall(t.val)
    \/ \E t \in BpmTexts : HeaderBpmInput(t)
    \/ \E t \in BpmTexts : DialogBpmInput(t)
    \/ DialogSubmit
    \/ \E i \in 1..MaxProjects : LoadProject(i)
    \/ SyncProject

SpecBpm == Init /\ [][NextBpm]_vars

\* ------------------------------------------------- the timeline components

\* Seeks that setCurrentTime can have deferred at once
MaxSeekTimers == 1

\* x of the pointer, in pixels from the left edge: on the track header, on
\* time 0, between two grid lines, on a grid line, right of the timeline's end
PointerXs == {60, 120, 150, 245, 700}
\* y of the pointer: on the ruler (0 <= y <= 20) or at mid-height of the
\* first object's track
PointerRows == {"ruler", "1"}
\* deltaX of a horizontal wheel event
WheelDeltas == {-500, 500}
\* width of the container's bounding rectangle
ContainerWidths == {300, InitialWidth}
\* duration of the track a file decodes to, in seconds
TrackDurations == {3, 20}
\* setCurrentTime(time) by the transport controls, which pass a time of
\* [0, duration]
TransportTimes == {0, 3, 18}

\* editorStore.ts setCurrentTime: the seek of the manager is deferred
SetCurrentTime(time) ==
    /\ currentTime' = time
    /\ IF audioManager /\ ~IsPlaying(Mgr)
       THEN /\ Len(seekTimers) < MaxSeekTimers
            /\ seekTimers' = Append(seekTimers, time)
       ELSE seekTimers' = seekTimers

\* the fields of the store the AudioManager's callback writes
Store ==
    [duration |-> duration, currentTime |-> currentTime,
     isPlaying |-> isPlaying, isEditorPlaying |-> isEditorPlaying]

\* editorStore.ts loadAudioFile: the callback given to the new AudioManager,
\* applied to the states a step of the manager emitted
RECURSIVE Notified(_, _)
Notified(store, emits) ==
    IF emits = <<>> THEN store
    ELSE LET playbackState == Head(emits)
         IN  Notified([duration |-> R(playbackState.duration),
                       isPlaying |-> playbackState.isPlaying,
                       isEditorPlaying |-> playbackState.isEditorPlaying,
                       currentTime |-> IF playbackState.isPlaying
                                       THEN R(playbackState.currentTime)
                                       ELSE store.currentTime],
                      Tail(emits))

\* CanvasTimeline.tsx: the auto-scroll effect, which runs after each render
\* that changed one of its dependencies; offset is the render's scrollOffset
AutoScrolled(time, d, width, offset, manual) ==
    IF d = R(0) \/ manual THEN offset
    ELSE LET totalTimelineWidth == GetTimelineWidth(d)
             contentWidth == R(width - HEADER_WIDTH)
             playheadX == Times(Over(time, d), totalTimelineWidth)
             leftEdge == offset
             rightEdge == Plus(offset, contentWidth)
             margin == R(50)
         IN  IF Less(playheadX, Minus(leftEdge, margin)) \/ Less(Plus(rightEdge, margin), playheadX)
             THEN MathMax(R(0), MathMin(Minus(playheadX, Over(contentWidth, R(2))),
                                        Minus(totalTimelineWidth, contentWidth)))
             ELSE offset

\* the CanvasTimeline after a step that leaves it with scrollOffset offset
CanvasRendered(offset) ==
    scrollOffset' = AutoScrolled(currentTime', duration', canvasWidth', offset, isManualScrolling')

\* useTimeline.ts
MaxScrollOffset(d, width) ==
    MathMax(R(0), Minus(GetTimelineWidthIn(d, width), R(width - HEADER_WIDTH)))

\* the pixi timeline after a step that leaves it with scrollOffset offset:
\* useTimeline's effect on duration, and the keydown handler, which is
\* registered anew only when maxScrollOffset changes
PixiRendered(offset) ==
    /\ pixiScrollOffset' = IF duration' = R(0) /\ duration' # duration THEN R(0) ELSE offset
    /\ keyDownScrollOffset' = IF MaxScrollOffset(duration', pixiWidth') # MaxScrollOffset(duration, pixiWidth)
                              THEN offset
                              ELSE keyDownScrollOffset

\* CanvasTimeline.tsx getKeyframeAtPosition, for a pointer at row; the index
\* counts from 1 here
GetKeyframeAtPosition(x, row) ==
    IF row \notin ObjectIds THEN NoDrag
    ELSE LET hits == {i \in 1..Len(objects[row]) :
                         LessEq(MathAbs(Minus(x, PlayheadX(objects[row][i].time, duration, scrollOffset))),
                                R(8))}
         IN  IF hits = {} THEN NoDrag
             ELSE [objectId |-> row, keyframeIndex |-> CHOOSE i \in hits : \A j \in hits : i <= j]

\* Math.max(0, Math.min(duration, time))
ClampToDuration(time) == MathMax(R(0), MathMin(duration, time))

\* CanvasTimeline.tsx: the time a click or a playhead drag at x selects
CanvasSnappedTime(x) ==
    LET time == GetTimeFromX(x, duration, scrollOffset)
        sixteenthInterval == GetSixteenthInterval(bpm)
    IN  ClampToDuration(SnapToSixteenth(time, sixteenthInterval))

pixiUnchanged == UNCHANGED <<pixiWidth, pixiScrollOffset, pixiDraggingPlayhead, keyDownScrollOffset>>

canvasUnchanged == UNCHANGED <<canvasWidth, scrollOffset, isManualScrolling, isDraggingPlayhead,
                               draggedKeyframe>>

clockUnchanged == UNCHANGED <<mgrVars, clockHistory>>

HandleMouseDown(x, row) ==
    LET playheadX == PlayheadX(currentTime, duration, scrollOffset)
        onHandle == /\ Less(R(0), duration)
                    /\ LessEq(R(HEADER_WIDTH), playheadX) /\ LessEq(playheadX, R(canvasWidth))
                    /\ LessEq(Minus(playheadX, R(5)), x) /\ LessEq(x, Plus(playheadX, R(5)))
                    /\ row = "ruler"
        clickedKeyframe == GetKeyframeAtPosition(x, row)
    IN  /\ UNCHANGED <<duration, canvasWidth, isManualScrolling, beatsPerMeasure, audioManager, audioVars, webglVars,
                       objects, bpmVars, funVars>>
        /\ pixiUnchanged /\ clockUnchanged
        /\ IF onHandle
           THEN /\ isDraggingPlayhead' = TRUE
                /\ UNCHANGED <<draggedKeyframe, selectedObjectId, currentTime, seekTimers, scrollOffset>>
           ELSE IF clickedKeyframe # NoDrag
           THEN /\ draggedKeyframe' = clickedKeyframe
                /\ selectedObjectId' = clickedKeyframe.objectId
                /\ UNCHANGED <<isDraggingPlayhead, currentTime, seekTimers, scrollOffset>>
           ELSE /\ selectedObjectId' = IF row \in ObjectIds THEN row ELSE selectedObjectId
                /\ IF LessEq(R(HEADER_WIDTH), x)
                   THEN SetCurrentTime(CanvasSnappedTime(x))
                   ELSE UNCHANGED <<currentTime, seekTimers>>
                /\ UNCHANGED <<isDraggingPlayhead, draggedKeyframe>>
                /\ CanvasRendered(scrollOffset)

HandleMouseMove(x) ==
    /\ UNCHANGED <<duration, canvasWidth, isManualScrolling, isDraggingPlayhead, draggedKeyframe,
                   selectedObjectId, beatsPerMeasure, audioManager, audioVars, webglVars, bpmVars, funVars>>
    /\ pixiUnchanged /\ clockUnchanged
    /\ IF isDraggingPlayhead
       THEN /\ SetCurrentTime(CanvasSnappedTime(x))
            /\ objects' = objects
            /\ CanvasRendered(scrollOffset)
       ELSE IF draggedKeyframe # NoDrag
       THEN LET newTime == GetTimeFromX(x, duration, scrollOffset)
                o == draggedKeyframe.objectId
                i == draggedKeyframe.keyframeIndex
            IN  /\ objects' = IF o \in ObjectIds /\ i \in 1..Len(objects[o])
                              THEN UpdateKeyframe(objects, o, i,
                                       [objects[o][i] EXCEPT !.time = ClampToDuration(newTime)])
                              ELSE objects
                /\ UNCHANGED <<currentTime, seekTimers, scrollOffset>>
       ELSE UNCHANGED <<objects, currentTime, seekTimers, scrollOffset>>

HandleMouseUp ==
    /\ draggedKeyframe' = NoDrag
    /\ isDraggingPlayhead' = FALSE
    /\ UNCHANGED <<currentTime, duration, beatsPerMeasure, canvasWidth, scrollOffset,
                   isManualScrolling, selectedObjectId, audioManager, audioVars, webglVars, seekTimers,
                   objects, bpmVars, funVars>>
    /\ pixiUnchanged /\ clockUnchanged

HandleDoubleClick(x, row) ==
    LET clickedKeyframe == GetKeyframeAtPosition(x, row)
        time == GetTimeFromX(x, duration, scrollOffset)
    IN  /\ IF clickedKeyframe # NoDrag
           THEN objects' = DeleteKeyframe(objects, clickedKeyframe.objectId,
                                          clickedKeyframe.keyframeIndex)
           ELSE IF row \in ObjectIds /\ LessEq(R(HEADER_WIDTH), x)
           THEN IF \E i \in 1..Len(objects[row]) :
                      Less(MathAbs(Minus(objects[row][i].time, time)), Rat(1, 10))
                THEN objects' = objects
                ELSE /\ Len(objects[row]) < MaxKeyframes
                     /\ objects' = AddKeyframe(objects, row,
                                       [time |-> time, position |-> Zero3, rotation |-> Zero3])
           ELSE objects' = objects
        /\ UNCHANGED <<timelineVars, bpmVars, funVars>>
        /\ clockUnchanged

\* timelineEvents.ts: the time a click or a playhead drag at x selects
PixiSnappedTime(x) ==
    LET timelineX == Plus(Minus(x, R(HEADER_WIDTH)), pixiScrollOffset)
        rawTime == Times(Over(timelineX, GetTimelineWidthIn(duration, pixiWidth)), duration)
        snappedTime == SnapToSubdivision(rawTime, bpm, beatsPerMeasure)
    IN  ClampToDuration(snappedTime)

PixiMouseDown(x) ==
    LET playheadX == Minus(Plus(R(HEADER_WIDTH),
                                Times(Over(currentTime, duration),
                                      GetTimelineWidthIn(duration, pixiWidth))),
                           pixiScrollOffset)
        onPlayhead == /\ Less(R(0), duration)
                      /\ LessEq(Minus(playheadX, R(10)), x) /\ LessEq(x, Plus(playheadX, R(10)))
    IN  /\ UNCHANGED <<duration, beatsPerMeasure, canvasWidth, isManualScrolling,
                       isDraggingPlayhead, draggedKeyframe, pixiWidth, pixiScrollOffset,
                       keyDownScrollOffset, selectedObjectId, audioManager, audioVars, webglVars,
                       objects, bpmVars, funVars>>
        /\ clockUnchanged
        /\ IF onPlayhead
           THEN /\ pixiDraggingPlayhead' = TRUE
                /\ UNCHANGED <<currentTime, seekTimers, scrollOffset>>
           ELSE /\ IF LessEq(R(HEADER_WIDTH), x) /\ Less(R(0), duration)
                   THEN SetCurrentTime(PixiSnappedTime(x))
                   ELSE UNCHANGED <<currentTime, seekTimers>>
                /\ pixiDraggingPlayhead' = pixiDraggingPlayhead
                /\ CanvasRendered(scrollOffset)

PixiMouseMove(x) ==
    /\ UNCHANGED <<duration, beatsPerMeasure, canvasWidth, isManualScrolling,
                   isDraggingPlayhead, draggedKeyframe, selectedObjectId, audioManager, audioVars, webglVars,
                   objects, bpmVars, funVars>>
    /\ pixiUnchanged /\ clockUnchanged
    /\ IF ~pixiDraggingPlayhead \/ duration = R(0)
       THEN UNCHANGED <<currentTime, seekTimers, scrollOffset>>
       ELSE /\ SetCurrentTime(PixiSnappedTime(x))
            /\ CanvasRendered(scrollOffset)

PixiMouseUp ==
    /\ pixiDraggingPlayhead' = FALSE
    /\ UNCHANGED <<currentTime, duration, beatsPerMeasure, canvasWidth, scrollOffset,
                   isManualScrolling, isDraggingPlayhead, draggedKeyframe, pixiWidth,
                   pixiScrollOffset, keyDownScrollOffset, selectedObjectId, audioManager, audioVars, webglVars,
                   seekTimers, objects, bpmVars, funVars>>
    /\ clockUnchanged

NextPointer ==
    \/ \E x \in PointerXs, row \in PointerRows : HandleMouseDown(R(x), row)
    \/ \E x \in PointerXs : HandleMouseMove(R(x))
    \/ HandleMouseUp
    \/ \E x \in PointerXs, row \in PointerRows : HandleDoubleClick(R(x), row)
    \/ \E x \in PointerXs : PixiMouseDown(R(x))
    \/ \E x \in PointerXs : PixiMouseMove(R(x))
    \/ PixiMouseUp

SpecPointer == Init /\ [][NextPointer]_vars

\* ------------------------------------------------- scrolling the timelines

\* CanvasTimeline.tsx handleWheel, for a horizontal wheel event
HandleWheel(deltaX) ==
    LET scrollSpeed == R(30)
        contentWidth == R(canvasWidth - HEADER_WIDTH)
        newScrollOffset ==
            MathMax(R(0), MathMin(Plus(scrollOffset, Over(Times(R(deltaX), scrollSpeed), R(50))),
                                  Minus(GetTimelineWidth(duration), contentWidth)))
    IN  /\ isManualScrolling' = TRUE
        /\ UNCHANGED <<currentTime, duration, beatsPerMeasure, canvasWidth, isDraggingPlayhead,
                       draggedKeyframe, selectedObjectId, audioManager, audioVars, webglVars, seekTimers,
                       objects, bpmVars, funVars>>
        /\ pixiUnchanged /\ clockUnchanged
        /\ CanvasRendered(newScrollOffset)

\* the timeout handleWheel set runs, 2 s after the last wheel event
ManualScrollTimeout ==
    /\ isManualScrolling
    /\ isManualScrolling' = FALSE
    /\ UNCHANGED <<currentTime, duration, beatsPerMeasure, canvasWidth, isDraggingPlayhead,
                   draggedKeyframe, selectedObjectId, audioManager, audioVars, webglVars, seekTimers,
                   objects, bpmVars, funVars>>
    /\ pixiUnchanged /\ clockUnchanged
    /\ CanvasRendered(scrollOffset)

\* CanvasTimeline.tsx updateCanvasSize, on a resize of the window
UpdateCanvasSize(rectWidth) ==
    /\ canvasWidth' = Max(400, rectWidth)
    /\ UNCHANGED <<currentTime, duration, beatsPerMeasure, isManualScrolling, isDraggingPlayhead,
                   draggedKeyframe, selectedObjectId, audioManager, audioVars, webglVars, seekTimers,
                   objects, bpmVars, funVars>>
    /\ pixiUnchanged /\ clockUnchanged
    /\ CanvasRendered(scrollOffset)

\* setCurrentTime(time) by a caller other than the pointer handlers
SetCurrentTimeCall(time) ==
    /\ SetCurrentTime(time)
    /\ UNCHANGED <<duration, beatsPerMeasure, canvasWidth, isManualScrolling, isDraggingPlayhead,
                   draggedKeyframe, selectedObjectId, audioManager, audioVars, webglVars, objects, bpmVars, funVars>>
    /\ pixiUnchanged /\ clockUnchanged
    /\ CanvasRendered(scrollOffset)

\* editorStore.ts loadAudioFile, for a file that decodes to d seconds of
\* audio on a context in state c.  The model keeps one manager, so the step
\* is taken when nothing of the manager it replaces is still pending.
LoadAudioFile(d, c) ==
    /\ ~IsPlaying(Mgr) /\ pendingPlays = <<>> /\ rafQueue = {} /\ endedQueue = {}
    /\ seekTimers = <<>>
    /\ loading = NoFile
    /\ LET m == SetAudioData(IF audioManager THEN Cleanup(Mgr, now) ELSE Mgr, d, c, now)
           store == Notified(Store, m.emits)
       IN  /\ SetMgr(m)
           /\ currentTime' = store.currentTime
           /\ isPlaying' = store.isPlaying
           /\ isEditorPlaying' = store.isEditorPlaying
    /\ audioManager' = TRUE
    /\ audioFile' = "track"
    /\ audioBuffer' = d
    /\ duration' = R(d)
    /\ lastStep' = Entry("setAudioData", 0)
    /\ pausedAt' = -1
    /\ UNCHANGED <<now, beatsPerMeasure, canvasWidth, isManualScrolling, isDraggingPlayhead,
                   draggedKeyframe, pixiWidth, pixiDraggingPlayhead, selectedObjectId,
                   seekTimers, isPreviewMode, loading, playAudioCalls, webglVars, objects, bpmVars,
                   funVars>>
    /\ CanvasRendered(scrollOffset)
    /\ PixiRendered(pixiScrollOffset)

\* the seek setCurrentTime deferred runs.  The clock of the manager counts
\* whole seconds, and so does every time that is deferred while a manager
\* is loaded.
SeekTimerFires ==
    /\ seekTimers # <<>>
    /\ IsWhole(Head(seekTimers))
    /\ CanCreateSource
    /\ Len(pendingPlays) < MaxPending
    /\ LET time == Head(seekTimers)[1]
           m == SeekTo(Mgr, time, now)
           store == Notified(Store, m.emits)
       IN  /\ SetMgr(m)
           /\ currentTime' = store.currentTime
           /\ duration' = store.duration
           /\ isPlaying' = store.isPlaying
           /\ isEditorPlaying' = store.isEditorPlaying
           /\ playAudioCalls' = IF Len(m.pendingPlays) > Len(pendingPlays)
                                THEN Append(playAudioCalls, "none")
                                ELSE playAudioCalls
           /\ lastStep' = Entry("seekTo", time)
    /\ pausedAt' = -1
    /\ seekTimers' = Tail(seekTimers)
    /\ UNCHANGED <<now, beatsPerMeasure, canvasWidth, isManualScrolling, isDraggingPlayhead,
                   draggedKeyframe, pixiWidth, pixiDraggingPlayhead, selectedObjectId,
                   audioManager, isPreviewMode, audioFile, audioBuffer, loading, webglVars,
                   objects, bpmVars, funVars>>
    /\ CanvasRendered(scrollOffset)
    /\ PixiRendered(pixiScrollOffset)

\* timelineEvents.ts handleWheel
PixiWheel(deltaY) ==
    LET scrollSpeed == R(50)
        delta == IF deltaY > 0 THEN scrollSpeed ELSE Minus(R(0), scrollSpeed)
        newOffset == MathMax(R(0), MathMin(MaxScrollOffset(duration, pixiWidth),
                                           Plus(pixiScrollOffset, delta)))
    IN  /\ UNCHANGED <<currentTime, duration, beatsPerMeasure, pixiWidth, pixiDraggingPlayhead,
                       selectedObjectId, audioManager, audioVars, webglVars, seekTimers, objects, bpmVars, funVars>>
        /\ canvasUnchanged /\ clockUnchanged
        /\ PixiRendered(newOffset)

KeyboardKeys == {"ArrowLeft", "ArrowRight", "Home", "End"}

\* timelineEvents.ts handleKeyDown, as the keydown effect registered it: its
\* context is that of the render which last changed maxScrollOffset
HandleKeyDown(key) ==
    LET scrollSpeed == R(100)
        maxScrollOffset == MaxScrollOffset(duration, pixiWidth)
        newOffset ==
            CASE key = "ArrowLeft" -> MathMax(R(0), Minus(keyDownScrollOffset, scrollSpeed))
              [] key = "ArrowRight" -> MathMin(maxScrollOffset, Plus(keyDownScrollOffset, scrollSpeed))
              [] key = "Home" -> R(0)
              [] key = "End" -> maxScrollOffset
    IN  /\ UNCHANGED <<currentTime, duration, beatsPerMeasure, pixiWidth, pixiDraggingPlayhead,
                       selectedObjectId, audioManager, audioVars, webglVars, seekTimers, objects, bpmVars, funVars>>
        /\ canvasUnchanged /\ clockUnchanged
        /\ PixiRendered(newOffset)

\* the pixi timeline's updatePixiSize, on a resize of its container
UpdatePixiSize(rectWidth) ==
    /\ pixiWidth' = Max(400, rectWidth)
    /\ UNCHANGED <<currentTime, duration, beatsPerMeasure, pixiDraggingPlayhead,
                   selectedObjectId, audioManager, audioVars, webglVars, seekTimers, objects, bpmVars, funVars>>
    /\ canvasUnchanged /\ clockUnchanged
    /\ PixiRendered(pixiScrollOffset)

NextScroll ==
    \/ \E deltaX \in WheelDeltas : HandleWheel(deltaX)
    \/ ManualScrollTimeout
    \/ \E w \in ContainerWidths : UpdateCanvasSize(w)
    \/ \E t \in {u \in TransportTimes : LessEq(R(u), duration)} : SetCurrentTimeCall(R(t))
    \/ \E d \in TrackDurations : LoadAudioFile(d, "running")
    \/ SeekTimerFires
    \/ \E deltaY \in WheelDeltas : PixiWheel(deltaY)
    \/ \E key \in KeyboardKeys : HandleKeyDown(key)
    \/ \E w \in ContainerWidths : UpdatePixiSize(w)

SpecScroll == Init /\ [][NextScroll]_vars

\* ------------------------------------------------- the transport controls

\* a handler of Timeline.tsx or of the header ran with arguments a; it
\* returns nothing
Handled(f, a) ==
    /\ fn' = f
    /\ args' = a
    /\ ret' = 0

transportUnchanged ==
    UNCHANGED <<duration, canvasWidth, isManualScrolling, isDraggingPlayhead, draggedKeyframe,
                selectedObjectId, audioManager, audioVars, webglVars, objects, bpmVars>>

\* Timeline.tsx getCurrentSixteenthIndex
GetCurrentSixteenthIndex ==
    MathRound(Over(currentTime, TimelineGetSixteenthInterval(bpm)))

StepToNextSixteenth ==
    LET nextTime == Times(R(GetCurrentSixteenthIndex + 1), TimelineGetSixteenthInterval(bpm))
    IN  /\ transportUnchanged /\ pixiUnchanged /\ clockUnchanged
        /\ beatsPerMeasure' = beatsPerMeasure
        /\ Handled("stepToNextSixteenth", <<currentTime>>)
        /\ IF LessEq(nextTime, duration)
           THEN SetCurrentTime(nextTime)
           ELSE UNCHANGED <<currentTime, seekTimers>>
        /\ CanvasRendered(scrollOffset)

StepToPrevSixteenth ==
    LET prevTime == MathMax(R(0), Times(R(GetCurrentSixteenthIndex - 1),
                                        TimelineGetSixteenthInterval(bpm)))
    IN  /\ transportUnchanged /\ pixiUnchanged /\ clockUnchanged
        /\ beatsPerMeasure' = beatsPerMeasure
        /\ Handled("stepToPrevSixteenth", <<currentTime>>)
        /\ SetCurrentTime(prevTime)
        /\ CanvasRendered(scrollOffset)

\* Timeline.tsx jumpToMeasure
JumpToMeasure(direction) ==
    LET beatInterval == Over(R(60), R(bpm))
        measureInterval == Times(beatInterval, R(beatsPerMeasure))
        currentMeasure == MathFloor(Over(currentTime, measureInterval))
        targetTime == IF direction = "next"
                      THEN Times(R(currentMeasure + 1), measureInterval)
                      ELSE MathMax(R(0), Times(R(currentMeasure), measureInterval))
    IN  /\ transportUnchanged /\ pixiUnchanged /\ clockUnchanged
        /\ beatsPerMeasure' = beatsPerMeasure
        /\ Handled("jumpToMeasure", <<direction, currentTime>>)
        /\ IF LessEq(targetTime, duration)
           THEN SetCurrentTime(targetTime)
           ELSE UNCHANGED <<currentTime, seekTimers>>
        /\ CanvasRendered(scrollOffset)

\* App.tsx: the time signature select
SetBeatsPerMeasure(beats) ==
    /\ beatsPerMeasure' = beats
    /\ Handled("setBeatsPerMeasure", <<beats>>)
    /\ UNCHANGED <<currentTime, seekTimers, scrollOffset>>
    /\ transportUnchanged /\ pixiUnchanged /\ clockUnchanged

NextTransport ==
    \/ StepToNextSixteenth
    \/ StepToPrevSixteenth
    \/ \E direction \in {"next", "prev"} : JumpToMeasure(direction)
    \/ \E beats \in BeatsPerMeasureChoices : SetBeatsPerMeasure(beats)

SpecTransport == Init /\ [][NextTransport]_vars

\* ------------------------------------------------- the editor store and its AudioManager

\* audioService.ts: 30 * 1024 * 1024
MaxFileSize == 30 * 1024 * 1024
\* audioService.ts validTypes
ValidTypes == {"audio/mpeg", "audio/wav", "audio/ogg", "audio/mp3", "audio/flac"}

\* The files a user picks: what the browser reports of them, whether
\* decodeAudioData accepts them and how long the decoded audio is
AudioFiles ==
    {[name |-> "notes.txt", type |-> "text/plain", size |-> 1024, decodes |-> FALSE, duration |-> 0],
     [name |-> "huge.mp3", type |-> "audio/mpeg", size |-> MaxFileSize + 1, decodes |-> TRUE, duration |-> 1],
     [name |-> "broken.mp3", type |-> "audio/mpeg", size |-> 1024, decodes |-> FALSE, duration |-> 0],
     [name |-> "long.ogg", type |-> "audio/ogg", size |-> 1024, decodes |-> TRUE, duration |-> 601],
     [name |-> "track.mp3", type |-> "audio/mpeg", size |-> MaxFileSize, decodes |-> TRUE,
      duration |-> MaxDuration]}

FileNamed(name) == CHOOSE file \in AudioFiles : file.name = name

\* audioService.ts validateAudioFile; the types of AudioFiles are a valid
\* type or start with none
ValidateAudioFile(file) ==
    IF file.size > MaxFileSize THEN FALSE
    ELSE IF file.type \notin ValidTypes THEN FALSE
    ELSE TRUE

\* audioService.ts loadAudioFile resolves (it rejects otherwise)
ServiceLoads(file) ==
    /\ ~(file.size > MaxFileSize)
    /\ file.decodes
    /\ IsAudioSafe(R(file.duration), file.size)

\* new AudioManager(callback): the sources of the page are the browser's
NewAudioManager ==
    [audioData |-> NoData, ctxState |-> "suspended", audioSource |-> NoSource,
     animationFrameId |-> NoFrame, pausedTime |-> 0, playbackStartTime |-> 0,
     sources |-> sources, endedQueue |-> {}, rafQueue |-> {},
     pendingPlays |-> <<>>, emits |-> <<>>, raised |-> FALSE]

\* A step of the store ends: the manager is m, the fields its callback and
\* the step wrote are store, and the timelines are rendered again
Stored(m, store) ==
    /\ SetMgr(m)
    /\ currentTime' = store.currentTime
    /\ duration' = store.duration
    /\ isPlaying' = store.isPlaying
    /\ isEditorPlaying' = store.isEditorPlaying
    /\ UNCHANGED <<beatsPerMeasure, canvasWidth, isManualScrolling, isDraggingPlayhead,
                   draggedKeyframe, pixiWidth, pixiDraggingPlayhead, selectedObjectId,
                   webglVars, objects, bpmVars, funVars>>
    /\ CanvasRendered(scrollOffset)
    /\ PixiRendered(pixiScrollOffset)

\* set({ isPlaying: playing }) in preview mode, set({ isEditorPlaying: playing }) otherwise
WithPlaying(store, preview, playing) ==
    IF preview
    THEN [store EXCEPT !.isPlaying = playing]
    ELSE [store EXCEPT !.isEditorPlaying = playing]

\* editorStore.ts loadAudioFile up to the await of the service: a file that
\* fails the validation is rejected at once; otherwise the manager in use is
\* cleaned up and the file is read and decoded.  One file is loaded at a
\* time, and none while a play() awaits resume().
StoreLoadAudioFile(file) ==
    /\ loading = NoFile
    /\ pendingPlays = <<>>
    /\ IF ~ValidateAudioFile(file)
       THEN /\ lastStep' = Entry("loadRejected", 0)
            /\ loading' = loading
            /\ Stored(Mgr, Store)
       ELSE /\ lastStep' = Entry("loadAudioFile", 0)
            /\ loading' = file.name
            /\ LET m == IF audioManager THEN Cleanup(Mgr, now) ELSE Mgr
               IN  Stored(m, Notified(Store, m.emits))
    /\ pausedAt' = -1
    /\ UNCHANGED <<now, audioManager, seekTimers, isPreviewMode, audioFile, audioBuffer,
                   playAudioCalls>>

\* editorStore.ts loadAudioFile from the await of the service on: the
\* service rejects, or it resolves on a context in state c and the new
\* manager replaces the old one.  The model keeps one manager, so the new
\* one comes when the events and timers of the old one have run.
LoadSettles(c) ==
    /\ loading # NoFile
    /\ LET file == FileNamed(loading)
       IN  IF ServiceLoads(file)
           THEN /\ endedQueue = {} /\ seekTimers = <<>>
                /\ LET m == SetAudioData(NewAudioManager, file.duration, c, now)
                       store == Notified(Store, m.emits)
                   IN  Stored(m, [store EXCEPT !.duration = R(file.duration)])
                /\ audioFile' = file.name
                /\ audioBuffer' = file.duration
                /\ audioManager' = TRUE
                /\ lastStep' = Entry("loadResolved", 0)
           ELSE /\ Stored(Mgr, Store)
                /\ UNCHANGED <<audioFile, audioBuffer, audioManager>>
                /\ lastStep' = Entry("loadRejected", 0)
    /\ loading' = NoFile
    /\ pausedAt' = -1
    /\ UNCHANGED <<now, seekTimers, isPreviewMode, playAudioCalls>>

\* editorStore.ts playAudio up to the await of play(): when play() has
\* nothing to await, the rest of playAudio runs before any other task
PlayAudio ==
    /\ IsWhole(currentTime)
    /\ CanCreateSource
    /\ Len(pendingPlays) < MaxPending
    /\ IF ~audioManager
       THEN /\ Stored(Mgr, Store)
            /\ playAudioCalls' = playAudioCalls
       ELSE LET m == Play(Mgr, currentTime[1], now)
                store == Notified(Store, m.emits)
            IN  IF Len(m.pendingPlays) > Len(pendingPlays)
                THEN /\ Stored(m, store)
                     /\ playAudioCalls' = Append(playAudioCalls,
                                                 IF isPreviewMode THEN "preview" ELSE "editor")
                ELSE /\ Stored(m, WithPlaying(store, isPreviewMode, TRUE))
                     /\ playAudioCalls' = playAudioCalls
    /\ lastStep' = Entry("playAudio", 0)
    /\ pausedAt' = -1
    /\ UNCHANGED <<now, audioManager, seekTimers, isPreviewMode, audioFile, audioBuffer, loading>>

\* context.resume() settles: the oldest waiting play() goes on from line 44,
\* and then the playAudio that awaits it
PlayAudioResumed ==
    /\ pendingPlays # <<>>
    /\ CanCreateSource
    /\ LET m == PlayStart([Mgr EXCEPT !.pendingPlays = Tail(@), !.ctxState = "running"],
                          Head(pendingPlays), now)
           store == Notified(Store, m.emits)
           caller == Head(playAudioCalls)
       IN  IF caller = "none" \/ m.raised
           THEN Stored(m, store)
           ELSE Stored(m, WithPlaying(store, caller = "preview", TRUE))
    /\ playAudioCalls' = Tail(playAudioCalls)
    /\ lastStep' = Entry("playResumed", 0)
    /\ pausedAt' = -1
    /\ UNCHANGED <<now, audioManager, seekTimers, isPreviewMode, audioFile, audioBuffer, loading>>

\* editorStore.ts pauseAudio
PauseAudio ==
    /\ IF ~audioManager
       THEN Stored(Mgr, Store)
       ELSE LET m == Pause(Mgr, now)
            IN  Stored(m, WithPlaying(Notified(Store, m.emits), isPreviewMode, FALSE))
    /\ lastStep' = Entry("pauseAudio", 0)
    /\ pausedAt' = IF audioManager /\ audioSource # NoSource /\ audioData # NoData
                   THEN GetCurrentTime(Mgr, now)
                   ELSE pausedAt
    /\ UNCHANGED <<now, audioManager, seekTimers, audioVars>>

\* editorStore.ts setIsPreviewMode
SetIsPreviewMode(preview) ==
    /\ isPreviewMode' = preview
    /\ Stored(Mgr, Store)
    /\ lastStep' = Entry("setIsPreviewMode", 0)
    /\ UNCHANGED <<now, pausedAt, audioManager, seekTimers, isPlaying, isEditorPlaying,
                   audioFile, audioBuffer, loading, playAudioCalls>>

\* a step of the manager or of the browser that no call of the store starts
Called(m, name) ==
    /\ Stored(m, Notified(Store, m.emits))
    /\ lastStep' = Entry(name, 0)
    /\ UNCHANGED <<now, pausedAt, audioManager, seekTimers, isPreviewMode, audioFile,
                   audioBuffer, loading, playAudioCalls>>

StoreFrameTick(f) ==
    /\ f \in rafQueue
    /\ Called(UpdateTime([Mgr EXCEPT !.rafQueue = @ \ {f}], now), "frame")

StoreSourceEnds(s) ==
    /\ s = audioSource
    /\ sources[s] = "playing"
    /\ audioData # NoData
    /\ pausedTime + (now - playbackStartTime) >= audioData
    /\ Called([Mgr EXCEPT !.sources[s] = "ended", !.endedQueue = @ \cup {s}], "sourceEnds")

StoreOnEnded(s) ==
    /\ s \in endedQueue
    /\ Called(Stop([Mgr EXCEPT !.endedQueue = @ \ {s}, !.sources[s] = "free"], now), "ended")

\* the whole seconds the playhead is set to
StoreTimes == {0, 1}

NextStore ==
    \/ \E file \in AudioFiles : StoreLoadAudioFile(file)
    \/ \E c \in {"suspended", "running"} : LoadSettles(c)
    \/ PlayAudio
    \/ PlayAudioResumed
    \/ PauseAudio
    \/ \E preview \in BOOLEAN : SetIsPreviewMode(preview)
    \/ \E time \in {u \in StoreTimes : LessEq(R(u), duration)} : SetCurrentTimeCall(R(time))
    \/ SeekTimerFires
    \/ \E f \in FrameIds : StoreFrameTick(f)
    \/ \E s \in SourceIds : StoreSourceEnds(s)
    \/ \E s \in SourceIds : StoreOnEnded(s)
    \/ Tick

SpecStore == Init /\ [][NextStore]_vars

\* ------------------------------------------------- the WebGL context of the pixi timeline

\* WebGLManager: maxContextLostRetries
maxContextLostRetries == 2
\* context losses of one canvas
MaxContextLosses == 4

webglUnchanged ==
    UNCHANGED <<mgrVars, clockHistory, objects, bpmVars, funVars,
                currentTime, duration, beatsPerMeasure, canvasWidth, scrollOffset,
                isManualScrolling, isDraggingPlayhead, draggedKeyframe,
                pixiWidth, pixiScrollOffset, pixiDraggingPlayhead,
                keyDownScrollOffset, selectedObjectId, audioManager, seekTimers, audioVars>>

\* WebGLManager.isValid
IsValid == app /\ contextLostCount < maxContextLostRetries

\* CanvasTimeline.tsx initializePixi: the app is created, the timeline is
\* rendered and the loading state is cleared
InitializePixi ==
    /\ ~app
    /\ app' = TRUE
    /\ pixiLoading' = FALSE
    /\ UNCHANGED <<contextLostCount, glContext, restoreTimers, lastRestore>>
    /\ webglUnchanged

\* the canvas loses its WebGL context: the webglcontextlost listener
WebGLContextLost ==
    /\ app
    /\ glContext = "live"
    /\ contextLostCount < MaxContextLosses
    /\ glContext' = "lost"
    /\ contextLostCount' = contextLostCount + 1
    /\ pixiLoading' = IF contextLostCount + 1 <= maxContextLostRetries THEN TRUE ELSE pixiLoading
    /\ UNCHANGED <<app, restoreTimers, lastRestore>>
    /\ webglUnchanged

\* the browser restores the context: the webglcontextrestored listener
\* sets its timeout
WebGLContextRestored ==
    /\ glContext = "lost"
    /\ glContext' = "live"
    /\ restoreTimers' = restoreTimers \cup {[stage |-> "manager", loss |-> contextLostCount]}
    /\ UNCHANGED <<app, contextLostCount, pixiLoading, lastRestore>>
    /\ webglUnchanged

\* the timeout of the webglcontextrestored listener: with a renderer it
\* renders the stage and calls onContextRestored, which sets its timeout
ManagerRestoreTimer(timer) ==
    /\ timer \in restoreTimers
    /\ timer.stage = "manager"
    /\ restoreTimers' = IF app
                        THEN (restoreTimers \ {timer}) \cup {[timer EXCEPT !.stage = "timeline"]}
                        ELSE restoreTimers \ {timer}
    /\ UNCHANGED <<app, contextLostCount, glContext, pixiLoading, lastRestore>>
    /\ webglUnchanged

\* the timeout of onContextRestored: renderTimeline and setPixiLoading(false)
\* if the manager is valid
TimelineRestoreTimer(timer) ==
    /\ timer \in restoreTimers
    /\ timer.stage = "timeline"
    /\ restoreTimers' = restoreTimers \ {timer}
    /\ pixiLoading' = IF IsValid THEN FALSE ELSE pixiLoading
    /\ lastRestore' = [loss |-> timer.loss,
                       latest |-> timer.loss = contextLostCount /\ glContext = "live",
                       valid |-> IsValid]
    /\ UNCHANGED <<app, contextLostCount, glContext>>
    /\ webglUnchanged

WebGLTimers == {[stage |-> st, loss |-> n] : st \in {"manager", "timeline"}, n \in 1..MaxContextLosses}

NextWebGL ==
    \/ InitializePixi
    \/ WebGLContextLost
    \/ WebGLContextRestored
    \/ \E timer \in WebGLTimers : ManagerRestoreTimer(timer)
    \/ \E timer \in WebGLTimers : TimelineRestoreTimer(timer)
    \/ \E rectWidth \in ContainerWidths : UpdatePixiSize(rectWidth)
    \/ \E deltaY \in WheelDeltas : PixiWheel(deltaY)

\* a timeout that was set runs
SpecWebGL ==
    /\ Init /\ [][NextWebGL]_vars
    /\ \A timer \in WebGLTimers :
          WF_vars(ManagerRestoreTimer(timer)) /\ WF_vars(TimelineRestoreTimer(timer))

\* C8: every object's keyframes array is in non-decreasing time order.
C8_KeyframesSorted ==
    \A o \in ObjectIds : \A i \in 1..(Len(objects[o]) - 1) :
        LessEq(objects[o][i].time, objects[o][i + 1].time)

\* C9: no object holds two keyframes with the same time.
C9_UniqueTimes ==
    \A o \in ObjectIds : \A i, j \in 1..Len(objects[o]) :
        i # j => objects[o][i].time # objects[o][j].time

\* ------------------------------------------------- the clock, as callers see it

Playing == IsPlaying(Mgr)
CurrentTime == GetCurrentTime(Mgr, now)
Duration == GetDuration(Mgr)
LiveSources == {s \in SourceIds : sources[s] = "playing"}
Clamp(time) == Max(0, Min(time, audioData))

\* C1: when seekTo(t) returns after being called while a source was playing,
\* isPlaying() is true and getCurrentTime() is at least min(max(t,0),duration).
C1_SeekWhilePlaying ==
    (lastStep.name = "seekTo" /\ lastStep.wasPlaying)
        => (Playing /\ audioData # NoData /\ CurrentTime >= Clamp(lastStep.arg))

C1_Witness ==
    /\ lastStep.name = "seekTo" /\ lastStep.wasPlaying
    /\ lastStep.arg = 1 /\ audioData = MaxDuration
    /\ Playing /\ CurrentTime = 1

\* C2 (as stated): once a getCurrentTime() call made while playing has returned
\* duration, isPlaying() is false.
C2_PollStopsAtEnd ==
    (lastStep.name = "getCurrentTime" /\ lastStep.wasPlaying /\ lastStep.atEnd)
        => ~Playing

\* C2 (amended): once the time-tracking frame callback, or the source's ended
\* event, has run while playing with getCurrentTime() at duration, isPlaying()
\* is false and the clock is back at 0: playback does not loop.
C2_FrameStopsAtEnd ==
    (lastStep.name \in {"frame", "ended"} /\ lastStep.wasPlaying /\ lastStep.atEnd)
        => (~Playing /\ LiveSources = {} /\ CurrentTime = 0)

C2_Witness ==
    /\ lastStep.name = "frame" /\ lastStep.wasPlaying /\ lastStep.atEnd
    /\ ~Playing /\ audioData # NoData

\* C3: after a pause() that found a source playing, isPlaying() is false and
\* getCurrentTime() returns the stored position until the next play, seekTo,
\* stop or setAudioData call, whatever frame ticks or source callbacks occur.
C3_PauseHolds ==
    pausedAt # -1 => (~Playing /\ CurrentTime = pausedAt)

\* C4: at most one started-and-not-stopped source exists, and it is the
\* manager's current one, whatever play() calls interleave.
C4_OneLiveSource ==
    /\ Cardinality(LiveSources) <= 1
    /\ LiveSources \subseteq {audioSource}

C4_Witness ==
    /\ lastStep.name = "playResumed" /\ lastStep.wasPlaying
    /\ Playing /\ LiveSources = {audioSource}
    /\ \E s \in SourceIds : sources[s] = "stopped"

\* C5: with no audio data loaded the clock is stopped: isPlaying() is false,
\* getCurrentTime() and getDuration() are 0, no source is live, no frame
\* callback is scheduled, and play, pause, stop and seekTo raise nothing.
C5_NoDataIsStopped ==
    audioData = NoData =>
        /\ ~Playing /\ CurrentTime = 0 /\ Duration = 0
        /\ LiveSources = {} /\ rafQueue = {} /\ animationFrameId = NoFrame
        /\ (lastStep.name \in {"play", "pause", "stop", "seekTo"} => ~raised)

C5_Witness ==
    /\ audioData = NoData
    /\ lastStep.name = "seekTo"
    /\ endedQueue # {}

\* C6: when seekTo(t) returns after being called with audio loaded and nothing
\* playing, isPlaying() is false, no source is live and getCurrentTime() is
\* min(max(t,0),duration).
C6_SeekWhileIdle ==
    (lastStep.name = "seekTo" /\ ~lastStep.wasPlaying /\ audioData # NoData)
        => (~Playing /\ LiveSources = {} /\ CurrentTime = Clamp(lastStep.arg))

C6_Witness ==
    /\ lastStep.name = "seekTo" /\ ~lastStep.wasPlaying
    /\ audioData # NoData /\ lastStep.arg > audioData
    /\ ~Playing /\ CurrentTime = audioData

\* C7: while the same source keeps playing, getCurrentTime() never decreases
\* and stays within [0, duration].
C7_Monotone ==
    [][(audioSource # NoSource /\ audioSource' = audioSource)
          => (CurrentTime' >= CurrentTime /\ 0 <= CurrentTime' /\ CurrentTime' <= Duration')]_vars

C7_Witness ==
    /\ lastStep.name = "getCurrentTime" /\ lastStep.wasPlaying
    /\ Playing /\ now > playbackStartTime
    /\ CurrentTime > pausedTime /\ CurrentTime < Duration

\* C10: the store's bpm is strictly positive and inside the accepted range
\* (20 to 400, the widest range named for it).
C10_BpmValid ==
    bpm > 0 /\ bpm >= 20 /\ bpm <= 400

\* ------------------------------------------------- interpolateKeyframes, as callers see it

SpecInterpolate == Init /\ [][NextInterpolate]_vars

Interpolated ==
    fn \in {"BeatSaberBlock.interpolateKeyframes", "BeatSaberBomb.interpolateKeyframes"}

\* the keyframe times of an array, the earliest and the latest of them
TimesOf(keyframes) == {keyframes[i].time : i \in 1..Len(keyframes)}
EarliestTime(keyframes) == CHOOSE lo \in TimesOf(keyframes) : \A x \in TimesOf(keyframes) : LessEq(lo, x)
LatestTime(keyframes) == CHOOSE hi \in TimesOf(keyframes) : \A x \in TimesOf(keyframes) : LessEq(x, hi)
HasTransformOf(r, kf) == r.position = Vec(kf.position) /\ r.rotation = Vec(kf.rotation)
DistinctTimes(keyframes) == Cardinality(TimesOf(keyframes)) = Len(keyframes)

\* C11: with at least two keyframes, in any order, a query at or before the
\* earliest keyframe time returns the position and rotation of a keyframe of
\* that time, and a query at or after the latest keyframe time returns those of
\* a keyframe of that time.
C11_ClampToEnds ==
    (Interpolated /\ Len(args[1]) >= 2) =>
        LET keyframes == args[1]
            t == args[2]
        IN  /\ LessEq(t, EarliestTime(keyframes)) =>
                  \E i \in 1..Len(keyframes) :
                      keyframes[i].time = EarliestTime(keyframes) /\ HasTransformOf(ret, keyframes[i])
            /\ LessEq(LatestTime(keyframes), t) =>
                  \E i \in 1..Len(keyframes) :
                      keyframes[i].time = LatestTime(keyframes) /\ HasTransformOf(ret, keyframes[i])

\* an unsorted array of three keyframes, asked past its latest keyframe, which
\* is the first of the array
C11_Witness ==
    /\ fn = "BeatSaberBlock.interpolateKeyframes"
    /\ Len(args[1]) = 3
    /\ args[1][1].time = R(2) /\ args[1][2].time = R(0) /\ args[1][3].time = R(1)
    /\ args[1][1].position = <<1, -2, 4>> /\ args[1][3].position = <<2, 0, 0>>
    /\ args[2] = Rat(5, 2)
    /\ ret.position = Vec(<<1, -2, 4>>)

\* C12: with at least two keyframes of distinct times and a query strictly
\* between the earliest and the latest, every position and rotation component
\* is a + (b - a) * f for a pair (a, b) of keyframes adjacent in time with
\* a.time <= t <= b.time and f = (t - a.time) / (b.time - a.time) in [0, 1];
\* keyframes at times 0 and 2 give the exact midpoint at t = 1.
C12_LinearBetween ==
    (Interpolated /\ Len(args[1]) >= 2 /\ DistinctTimes(args[1])
        /\ Less(EarliestTime(args[1]), args[2]) /\ Less(args[2], LatestTime(args[1]))) =>
        LET keyframes == args[1]
            t == args[2]
        IN  /\ \E i, j \in 1..Len(keyframes) :
                  LET a == keyframes[i]
                      b == keyframes[j]
                      f == Over(Minus(t, a.time), Minus(b.time, a.time))
                  IN  /\ Less(a.time, b.time)
                      /\ LessEq(a.time, t) /\ LessEq(t, b.time)
                      /\ ~\E x \in TimesOf(keyframes) : Less(a.time, x) /\ Less(x, b.time)
                      /\ LessEq(R(0), f) /\ LessEq(f, R(1))
                      /\ ret.position = Lerp3(a.position, b.position, f)
                      /\ ret.rotation = Lerp3(a.rotation, b.rotation, f)
            /\ (Len(keyframes) = 2 /\ TimesOf(keyframes) = {R(0), R(2)} /\ t = R(1)) =>
                  \A c \in 1..3 :
                      /\ ret.position[c]
                           = Rat(keyframes[1].position[c] + keyframes[2].position[c], 2)
                      /\ ret.rotation[c]
                           = Rat(keyframes[1].rotation[c] + keyframes[2].rotation[c], 2)

\* three keyframes out of order, asked half-way between the later two
C12_Witness ==
    /\ fn = "BeatSaberBomb.interpolateKeyframes"
    /\ Len(args[1]) = 3
    /\ args[1][1].time = R(2) /\ args[1][2].time = R(0) /\ args[1][3].time = R(1)
    /\ args[1][1].position = <<1, -2, 4>> /\ args[1][3].position = <<2, 0, 0>>
    /\ args[2] = Rat(3, 2)
    /\ ret.position = <<Rat(3, 2), R(-1), R(2)>>

\* ------------------------------------------------- the beat grid, as callers see it

SpecGrid == Init /\ [][NextGrid]_vars

\* C13: for bpm > 0 and beatsPerMeasure >= 1, snapping a snapped time gives
\* the same time, and a snapped time is a whole number of subdivisions.
C13_SnapIdempotent ==
    (fn = "snapToSubdivision" /\ args[2] > 0 /\ args[3] >= 1) =>
        /\ SnapToSubdivision(ret, args[2], args[3]) = ret
        /\ IsWhole(Over(ret, GetSubdivisionDuration(args[2], args[3])))

\* a time off the grid was moved: 0.28125 s at 90 bpm in 3/4 goes to 0.25 s
C13_Witness ==
    /\ fn = "snapToSubdivision"
    /\ args = <<Rat(9, 32), 90, 3>>
    /\ ret = Rat(1, 4)

\* C15: the step of the canvas timeline, of the sixteenth-step buttons and of
\* the 3D placer is the subdivision duration (60 / bpm) * beatsPerMeasure / 16,
\* whatever bpm and beatsPerMeasure the store holds.
C15_OneStep ==
    fn \in {"CanvasTimeline.getSixteenthInterval", "Timeline.getSixteenthInterval",
            "Timeline3DObjectPlacer.sixteenthInterval", "getSubdivisionDuration"}
        => ret = Over(Times(Over(R(60), R(args[1])), R(args[2])), R(16))

BeatInfoCalled == fn \in {"getBeatInfo", "App.getBeatInfo"}

\* C16: for every time >= 0, measure, beatInMeasure and subdivision are the
\* three floors of the formula, with measure >= 0,
\* 0 <= beatInMeasure < beatsPerMeasure and 0 <= subdivision < 16.
C16_BeatInfo ==
    (BeatInfoCalled /\ LessEq(R(0), args[1])) =>
        LET time == args[1]
            beatDuration == Over(R(60), R(args[2]))
            n == args[3]
            subdivisionDuration == Over(Times(beatDuration, R(n)), R(16))
        IN  /\ ret.measure = MathFloor(Over(Over(time, beatDuration), R(n)))
            /\ ret.beatInMeasure = MathFloor(Rem(Over(time, beatDuration), R(n)))
            /\ ret.subdivision = MathFloor(Rem(Over(time, subdivisionDuration), R(16)))
            /\ ret.measure >= 0
            /\ 0 <= ret.beatInMeasure /\ ret.beatInMeasure < n
            /\ 0 <= ret.subdivision /\ ret.subdivision < 16

\* ------------------------------------------------- widths and positions, as callers see them

SpecLayout == Init /\ [][NextLayout]_vars

\* C17: for duration > 0, any scroll offset and any time in [0, duration], the
\* time of the pixel at which that time is drawn is that time.
C17_RoundTrip ==
    (fn = "getTimeFromX" /\ Less(R(0), args[2])) =>
        \A part \in LayoutParts :
            LET time == Times(part, args[2])
            IN  (LessEq(R(0), time) /\ LessEq(time, args[2])
                    /\ args[1] = PlayheadX(time, args[2], args[3]))
                => ret = time

\* a third of a track longer than the cap, scrolled by 220.5 pixels
C17_Witness ==
    /\ fn = "getTimeFromX"
    /\ args[2] = R(MAX_DURATION + 100) /\ args[3] = Rat(441, 2)
    /\ args[1] = PlayheadX(Rat(700, 3), args[2], args[3])
    /\ ret = Rat(700, 3)

C20_WidthCapped ==
    ((fn = "getTimelineWidth" \/ (fn = "getTimelineWidth/2" /\ args[2] = NoWidth))
        /\ LessEq(R(0), args[1])) =>
        /\ ret = (IF LessEq(args[1], R(600)) THEN Times(args[1], R(100)) ELSE R(60000))
        /\ (args[1] = R(0) => ret = R(0))
        /\ (Less(R(600), args[1]) => ret = R(600 * 100))

C20_Witness ==
    /\ fn = "getTimelineWidth"
    /\ args[1] = R(700)
    /\ ret = R(60000)

\* ------------------------------------------------- pointer-driven time selection

\* time is a whole multiple of the subdivision duration of the store's bpm
\* and beatsPerMeasure
OnGrid(time) == IsWhole(Over(time, GetSubdivisionDuration(bpm, beatsPerMeasure)))

\* C14: every time that a step of the pointer (mouse down, mouse move, double
\* click, in either timeline) writes into currentTime or into a keyframe's
\* time is a whole multiple of the subdivision duration.
C14_PointerTimesSnapped ==
    [][/\ currentTime' # currentTime => OnGrid(currentTime')
       /\ \A o \in ObjectIds :
             \A time \in TimesOf(objects'[o]) \ TimesOf(objects[o]) : OnGrid(time)]_vars

\* ------------------------------------------------- scroll offsets

\* CanvasTimeline.tsx: the largest scroll offset of the canvas timeline
CanvasMaxScrollOffset ==
    MathMax(R(0), Minus(GetTimelineWidth(duration), R(canvasWidth - HEADER_WIDTH)))

InScrollRange(offset, maxScrollOffset) ==
    LessEq(R(0), offset) /\ LessEq(offset, maxScrollOffset)

\* C19: in every state the wheel, keyboard, auto-scroll, resize and
\* duration-change steps reach, the scroll offset of each timeline lies
\* between 0 and max(0, totalTimelineWidth - visible content width).
C19_ScrollClamped ==
    /\ InScrollRange(scrollOffset, CanvasMaxScrollOffset)
    /\ InScrollRange(pixiScrollOffset, MaxScrollOffset(duration, pixiWidth))

\* ------------------------------------------------- isAudioSafe

\* C21: isAudioSafe(duration, fileSize) is true exactly when duration <= 600
\* and the file size is left out or at most 50 * 1024 * 1024 bytes.
C21_AudioSafe ==
    fn = "isAudioSafe" =>
        (ret <=> (/\ LessEq(args[1], R(600))
                  /\ (args[2] = NoSize \/ args[2] <= 52428800)))

\* both limits met exactly
C21_Witness ==
    /\ fn = "isAudioSafe"
    /\ args = <<R(600), 52428800>>
    /\ ret = TRUE

\* ------------------------------------------------- interpolateKeyframes and shared times

\* C28: whatever the keyframes, keyframes of one time included, and whatever
\* the time asked for, no component that interpolateKeyframes returns comes
\* from a division by zero.
C28_NoDivisionByZero ==
    Interpolated =>
        \A c \in 1..3 : ret.position[c] # NotFinite /\ ret.rotation[c] # NotFinite

\* keyframes at 0, 1, 1, 2 asked at 1: the pair (0, 1) is taken before the
\* pair (1, 1) is looked at
C28_Witness ==
    /\ fn = "BeatSaberBlock.interpolateKeyframes"
    /\ Len(args[1]) = 4
    /\ args[1][1].time = R(1) /\ args[1][2].time = R(2)
    /\ args[1][3].time = R(0) /\ args[1][4].time = R(1)
    /\ args[2] = R(1)
    /\ ret.position = Vec(<<1, 0, 0>>)

\* ------------------------------------------------- measure navigation

\* the measure boundaries: whole multiples of (60 / bpm) * beatsPerMeasure
OnMeasure(time) ==
    IsWhole(Over(time, Times(Over(R(60), R(bpm)), R(beatsPerMeasure))))

\* C29: right after jumpToMeasure('prev') from a time in (0, duration] the
\* current time is a measure boundary before that time; right after
\* jumpToMeasure('next') it is the first measure boundary after that time,
\* or, if that boundary is past the duration, the time is kept; and it is
\* in [0, duration].
C29_MeasureProgress ==
    (fn = "jumpToMeasure" /\ Less(R(0), args[2]) /\ LessEq(args[2], duration)) =>
        LET before == args[2]
            measureInterval == Times(Over(R(60), R(bpm)), R(beatsPerMeasure))
            following == Times(R(MathFloor(Over(before, measureInterval)) + 1), measureInterval)
        IN  /\ LessEq(R(0), currentTime) /\ LessEq(currentTime, duration)
            /\ args[1] = "prev" => OnMeasure(currentTime) /\ Less(currentTime, before)
            /\ args[1] = "next" =>
                  currentTime = IF LessEq(following, duration) THEN following ELSE before

\* ------------------------------------------------- time tracking

\* C27: at most one animation-frame callback of the time tracking is
\* pending, and none while there is no audio source.
C27_OneFramePending ==
    /\ Cardinality(rafQueue) <= 1
    /\ audioSource = NoSource => rafQueue = {}

\* a frame callback ran during playback and requested the next frame
C27_Witness ==
    /\ lastStep.name = "frame"
    /\ audioSource # NoSource
    /\ rafQueue = {animationFrameId}

\* ------------------------------------------------- late ended events

\* C23: the ended event of a source that pause(), stop(), seekTo() or a later
\* play() stopped leaves the playback as it is: the current source and the
\* stored offset are the same after the event as before it.
C23_StaleEndedIgnored ==
    [][(lastStep'.name = "ended" /\ \E s \in endedQueue \ endedQueue' : sources[s] = "stopped")
          => (audioSource' = audioSource /\ pausedTime' = pausedTime)]_vars

\* ------------------------------------------------- the store and the clock

\* the editor's empty-timeline state
EmptyTimeline ==
    /\ audioFile = NoFile
    /\ audioBuffer = NoData
    /\ ~isPlaying /\ ~isEditorPlaying
    /\ audioSource = NoSource
    /\ duration = R(0)

\* C22: a loadAudioFile call that rejects leaves the store with no audio file
\* and no buffer, nothing playing and duration 0, and a playAudio or
\* pauseAudio that follows changes neither the playing flags nor the source.
C22_RejectedLoadEmpties ==
    [][/\ lastStep'.name = "loadRejected" => EmptyTimeline'
       /\ (lastStep.name = "loadRejected" /\ lastStep'.name \in {"playAudio", "pauseAudio"})
             => UNCHANGED <<isPlaying, isEditorPlaying, audioSource, pendingPlays>>]_vars

\* C24: when pauseAudio ran while one play() awaited resume(), the step that
\* completes that play() leaves the clock without a source and both playing
\* flags of the store false.
C24_PauseDuringResumeHolds ==
    [][(lastStep.name = "pauseAudio" /\ Len(pendingPlays) = 1 /\ lastStep'.name = "playResumed")
          => (audioSource' = NoSource /\ ~isPlaying' /\ ~isEditorPlaying')]_vars

\* no playAudio call awaits its play()
NoPlayAudioInFlight == \A i \in 1..Len(playAudioCalls) : playAudioCalls[i] = "none"

\* C25: while no playAudio call is in flight, a playing flag of the store is
\* true only if the store's AudioManager has an audio source.
C25_FlagsImplyPlaying ==
    (NoPlayAudioInFlight /\ (isPlaying \/ isEditorPlaying)) =>
        (audioManager /\ IsPlaying(Mgr))

\* C26: while audio is loaded, no source plays and no seek deferred by
\* setCurrentTime is pending, the store's currentTime is the AudioManager's
\* getCurrentTime().
C26_StoreTimeIsClockTime ==
    (audioManager /\ audioData # NoData /\ ~IsPlaying(Mgr) /\ seekTimers = <<>>) =>
        currentTime = R(GetCurrentTime(Mgr, now))

\* ------------------------------------------------- context recovery

\* C30: when the timeout of onContextRestored runs for a loss the manager
\* announced (the loss count was at most maxContextLostRetries), and no
\* context was lost since, it finds isValid() true, and so it has rendered
\* the timeline and cleared the loading state.
C30_RestoreFindsValid ==
    (lastRestore.loss >= 1 /\ lastRestore.loss <= maxContextLostRetries /\ lastRestore.latest) =>
        lastRestore.valid

====
